---- MODULE Spec2Model ----
(***************************************************************************)
(* ParkWatch SG: report lifecycle, feedback ledger and moderation.         *)
(*                                                                         *)
(* The store (bot/database.py) is the only shared state.  Handlers         *)
(* (bot/handlers/*.py, bot/services/*.py) are modelled as actions over it. *)
(* Time is counted in seconds.  A GPS fix is a point on one meridian,      *)
(* given as its offset in metres: for two points of equal longitude the    *)
(* haversine formula of bot/utils.py reduces to R * |dphi|, the absolute   *)
(* difference of the offsets.                                              *)
(***************************************************************************)
EXTENDS Integers, Sequences, FiniteSets, TLC

\* ------------------------------------------------------------- constants
MAX_REPORTS_PER_HOUR == 3
DUPLICATE_WINDOW_MINUTES == 5
DUPLICATE_RADIUS_METERS == 200
SIGHTING_RETENTION_DAYS == 30
FEEDBACK_WINDOW_HOURS == 24
MAX_WARNINGS == 3
CONVERSATION_TIMEOUT == 300   \* seconds

MINUTE == 60 * 1     \* timedelta(minutes=1), in seconds
HOUR == 60 * MINUTE  \* timedelta(hours=1)
DAY == 24 * HOUR     \* timedelta(days=1)

\* ---------------------------------------------------------------- bounds
MaxLedgerSightings == 2   \* sightings created in a behaviour of SpecLedger
MaxLedgerAdvances == 1    \* clock advances in a behaviour of SpecLedger
MaxLog == 4               \* audit entries written in one behaviour
MaxModSightings == 2      \* sightings created in a behaviour of SpecMod
MaxRateSightings == 4     \* sightings created in a behaviour of SpecRate
MaxRateAdvances == 2      \* clock advances in a behaviour of SpecRate
MaxDedupSightings == 3    \* sightings created in a behaviour of SpecDedup
MaxDedupAdvances == 2     \* clock advances in a behaviour of SpecDedup
MaxBroadcastSightings == 1
MaxBanSightings == 1  \* sightings created in a behaviour of SpecBan
MaxRebanSightings == 1  \* sightings created in a behaviour of SpecReban
MaxFlagVoters == 10     \* users who vote on the sighting of SpecFlag
MaxAccuracySightings == 2  \* sightings created in a behaviour of SpecAccuracy
MaxAccuracyAdvances == 1   \* clock steps in a behaviour of SpecAccuracy
MaxSweepSightings == 2     \* sightings created in a behaviour of SpecSweep
MaxSweepAdvances == 2      \* clock steps in a behaviour of SpecSweep
MaxCountSightings == 3     \* sightings created in a behaviour of SpecCount
MaxCountAdvances == 1      \* clock steps in a behaviour of SpecCount
MaxPipelineSightings == 3  \* sightings created in a behaviour of SpecPipeline
MaxAdminSightings == 2     \* sightings created in a behaviour of SpecAdmin
MaxRetrySightings == 4     \* sightings created in a behaviour of SpecRetry
MaxRetryAdvances == 3      \* clock steps in a behaviour of SpecRetry
MaxConvSightings == 1      \* sightings created in a behaviour of SpecConv
MaxConvTimeouts == 1       \* conversation timeouts in a behaviour of SpecConv
MaxBanConvSightings == 2   \* sightings created in a behaviour of SpecBanConv
MaxRaceSightings == 4      \* sightings created in a behaviour of SpecRace
MaxBadgeCount == 52        \* largest report_count a behaviour of SpecBadge starts with
MaxBadgeSightings == 2     \* sightings created in a behaviour of SpecBadge

\* ---------------------------------------------------------------- inputs
Users == {1, 2, 3}
ADMIN_USER_IDS == {1}
Zones == {"Bugis", "Orchard"}
NoGPS == 0 - 1                       \* lat/lng are None
Points == {0, 50, 250}             \* metres along the meridian
Votes == {"positive", "negative"}
None == "none"
Chats == {1, 2}                      \* chats in which a user talks to the bot

\* states of the report conversation; END is ConversationHandler.END
END == "END"
CHOOSING_METHOD == "CHOOSING_METHOD"
SELECTING_REGION == "SELECTING_REGION"
SELECTING_ZONE == "SELECTING_ZONE"
AWAITING_LOCATION == "AWAITING_LOCATION"
AWAITING_DESCRIPTION == "AWAITING_DESCRIPTION"
CONFIRMING == "CONFIRMING"

\* context.user_data with no pending report; a missing key reads as None
NoPending == [zone |-> None, lat |-> NoGPS, description |-> None, region |-> None]

\* a handle_report_confirm call that has not started
IdleReport == [pc |-> "idle", user_id |-> 0, zone |-> None, lat |-> NoGPS]

VARIABLES
    now,            \* datetime.now(timezone.utc), in seconds
    advances,       \* how often the clock was advanced
    nextId,         \* the next fresh sighting id
    users,          \* table users: telegram_id -> [report_count, warnings]
    subscriptions,  \* table subscriptions: set of <<telegram_id, zone_name>>
    sightings,      \* table sightings: id -> row
    feedback,       \* table feedback: set of rows [sighting_id, user_id, vote]
    banned_users,   \* table banned_users: set of rows
    admin_actions,  \* table admin_actions: sequence of audit rows
    reply,          \* what the last handler answered
    driver,         \* Database.driver
    calls,          \* apply_feedback calls in flight, per task
    user_data,      \* context.user_data: the pending report of each user
    conversations,  \* ConversationHandler state of each (chat, user)
    in_flight       \* handle_report_confirm calls in flight, per task

vars == <<now, advances, nextId, users, subscriptions, sightings, feedback,
          banned_users, admin_actions, reply, driver, calls,
          user_data, conversations, in_flight>>

\* what lives in the memory of the bot process, not in the database
session == <<user_data, conversations, in_flight>>

store == <<users, subscriptions, sightings, feedback, banned_users, admin_actions>>

\* ---------------------------------------------------------------- helpers
Max(a, b) == IF a >= b THEN a ELSE b

Abs(a) == IF a >= 0 THEN a ELSE -a

NoReply == [op |-> "none", user |-> 0, result |-> "none", sid |-> 0,
            wait_mins |-> 0, wait_secs |-> 0, matched |-> 0,
            sent |-> 0, failed |-> 0, blocked |-> {}, recipients |-> {},
            previous |-> None, vote |-> None, target |-> 0, deleted |-> 0,
            at |-> 0, zone |-> None, lat |-> 0,
            outcome |-> <<>>, prune_failed |-> {}, reason |-> None,
            score |-> [num |-> 0, den |-> 1], total |-> 0,
            chat |-> 0, badge |-> None, replaced_lat |-> NoGPS]

TruncDiv(a, b) == IF a >= 0 THEN a \div b ELSE -((-a) \div b)   \* Python int(a / b)

\* ------------------------------------------------------------ bot/utils.py
\* a signed difference in place of the distance
haversine_signed(lat1, lat2) == lat2 - lat1

haversine_meters(lat1, lat2) == Abs(lat2 - lat1)

\* --------------------------------------------------------- bot/database.py
get_subscriptions(user_id) == {z \in Zones : <<user_id, z>> \in subscriptions}

add_subscription(subs, user_id, zone) == subs \cup {<<user_id, zone>>}

remove_subscription(subs, user_id, zone) == subs \ {<<user_id, zone>>}

\* variant that deletes no row
clear_subscriptions_none(subs, user_id) == subs

clear_subscriptions(subs, user_id) == {p \in subs : p[1] # user_id}

get_zone_subscribers(zone) == {p[1] : p \in {q \in subscriptions : q[2] = zone}}

ensure_user(U, user_id) ==
    IF user_id \in DOMAIN U THEN U
    ELSE (user_id :> [report_count |-> 0, warnings |-> 0]) @@ U

\* an increment that also counts the attempt
increment_report_count_twice(U, user_id) ==
    IF user_id \in DOMAIN U
    THEN [U EXCEPT ![user_id].report_count = @ + 2]
    ELSE U

increment_report_count(U, user_id) ==
    IF user_id \in DOMAIN U
    THEN [U EXCEPT ![user_id].report_count = @ + 1]
    ELSE U

add_sighting(S, id, zone, time, reporter_id, lat) ==
    (id :> [zone |-> zone, reported_at |-> time, reporter_id |-> reporter_id,
            lat |-> lat, feedback_positive |-> 0, feedback_negative |-> 0,
            flagged |-> 0]) @@ S

RecentZoneIds(zone, window_minutes) ==
    {id \in DOMAIN sightings :
        /\ sightings[id].zone = zone
        /\ sightings[id].reported_at > now - window_minutes * MINUTE}

\* the rows in ascending order of reported_at
find_recent_zone_sightings_oldest_first(zone, window_minutes) ==
    LET ids == RecentZoneIds(zone, window_minutes)
        n == Cardinality(ids)
    IN {q \in [1 .. n -> ids] :
          /\ \A i, j \in 1 .. n : i # j => q[i] # q[j]
          /\ \A i \in 1 .. n - 1 :
                sightings[q[i]].reported_at <= sightings[q[i + 1]].reported_at}

\* ORDER BY reported_at DESC: every order of the rows that is newest first
\* (rows of equal reported_at come in either order).
find_recent_zone_sightings(zone, window_minutes) ==
    LET ids == RecentZoneIds(zone, window_minutes)
        n == Cardinality(ids)
    IN {q \in [1 .. n -> ids] :
          /\ \A i, j \in 1 .. n : i # j => q[i] # q[j]
          /\ \A i \in 1 .. n - 1 :
                sightings[q[i]].reported_at >= sightings[q[i + 1]].reported_at}

ReportsSince(user_id, since) ==
    {id \in DOMAIN sightings :
        /\ sightings[id].reporter_id = user_id
        /\ sightings[id].reported_at > since}

count_reports_since(user_id, since) == Cardinality(ReportsSince(user_id, since))

\* MIN(reported_at); NoTime stands for None
NoTime == 0 - 1

get_oldest_report_since(user_id, since) ==
    LET ids == ReportsSince(user_id, since)
    IN IF ids = {} THEN NoTime
       ELSE LET o == CHOOSE i \in ids :
                        \A j \in ids : sightings[i].reported_at <= sightings[j].reported_at
            IN sightings[o].reported_at

\* DELETE in cleanup_old_sightings: the rows strictly older than the cutoff
\* a cutoff that also takes the sightings exactly retention_days old
ExpiredIds_at_horizon(retention_days) ==
    {id \in DOMAIN sightings : sightings[id].reported_at <= now - retention_days * DAY}

ExpiredIds(retention_days) ==
    {id \in DOMAIN sightings : sightings[id].reported_at < now - retention_days * DAY}

Restrict(f, D) == [x \in D |-> f[x]]

\* --- feedback
\* a read that never finds the voter's row
get_user_feedback_none(F, sighting_id, user_id) == None

get_user_feedback(F, sighting_id, user_id) ==
    LET rows == {r \in F : r.sighting_id = sighting_id /\ r.user_id = user_id}
    IN IF rows = {} THEN None ELSE (CHOOSE r \in rows : TRUE).vote

\* a plain INSERT into a table without the primary key
upsert_feedback_append(F, sighting_id, user_id, vote) ==
    F \cup {[sighting_id |-> sighting_id, user_id |-> user_id, vote |-> vote]}

\* an upsert whose conflict target is the sighting alone: one vote row per sighting
upsert_feedback_per_sighting(F, sighting_id, user_id, vote) ==
    {r \in F : r.sighting_id # sighting_id}
        \cup {[sighting_id |-> sighting_id, user_id |-> user_id, vote |-> vote]}

\* INSERT ... ON CONFLICT(sighting_id, user_id) DO UPDATE SET vote = excluded.vote
upsert_feedback(F, sighting_id, user_id, vote) ==
    {r \in F : ~(r.sighting_id = sighting_id /\ r.user_id = user_id)}
        \cup {[sighting_id |-> sighting_id, user_id |-> user_id, vote |-> vote]}

\* a changed vote that is counted without taking the old vote back
pos_delta_no_reversal(previous_vote, new_vote) ==
    IF new_vote = "positive" THEN 1 ELSE 0

\* a changed vote whose old kind is never taken back
neg_delta_no_reversal(previous_vote, new_vote) ==
    IF new_vote = "negative" THEN 1 ELSE 0

pos_delta(previous_vote, new_vote) ==
    (IF previous_vote = "positive" THEN -1 ELSE 0)
        + (IF new_vote = "positive" THEN 1 ELSE 0)

neg_delta(previous_vote, new_vote) ==
    (IF previous_vote = "negative" THEN -1 ELSE 0)
        + (IF new_vote = "positive" THEN 0 ELSE 1)

\* UPDATE sightings SET feedback_positive = feedback_positive + ?, ... WHERE id = ?
update_feedback_counts(S, sighting_id, pd, nd) ==
    IF sighting_id \in DOMAIN S
    THEN [S EXCEPT ![sighting_id].feedback_positive = @ + pd,
                   ![sighting_id].feedback_negative = @ + nd]
    ELSE S

VotesOn(F, sighting_id, vote) ==
    {r \in F : r.sighting_id = sighting_id /\ r.vote = vote}

\* --- rows removed with their sighting (feedback.sighting_id ... ON DELETE CASCADE)
\* a deletion that does not cascade
delete_feedback_of_nothing(F, ids) == F

delete_feedback_of(F, ids) == {r \in F : r.sighting_id \notin ids}

delete_sightings(S, ids) == Restrict(S, DOMAIN S \ ids)

\* --- accuracy (aggregate queries)
RECURSIVE GCD(_, _)
GCD(a, b) == IF b = 0 THEN a ELSE GCD(b, a % b)

\* the float n / d, kept exact as a fraction in lowest terms (0.0 is 0/1)
Ratio(n, d) == [num |-> n \div GCD(n, d), den |-> d \div GCD(n, d)]

column_value(S, sighting_id, column) ==
    IF column = "positive" THEN S[sighting_id].feedback_positive
    ELSE S[sighting_id].feedback_negative

SightingsOf(S, user_id) == {id \in DOMAIN S : S[id].reporter_id = user_id}

\* COALESCE(SUM(column), 0) over the rows ids
RECURSIVE sum_column(_, _, _)
sum_column(S, ids, column) ==
    IF ids = {} THEN 0
    ELSE LET id == CHOOSE x \in ids : TRUE
         IN column_value(S, id, column) + sum_column(S, ids \ {id}, column)

\* a score of 1.0 for a reporter nobody has rated
calculate_accuracy_perfect_when_unrated(S, user_id) ==
    LET pos == sum_column(S, SightingsOf(S, user_id), "positive")
        neg == sum_column(S, SightingsOf(S, user_id), "negative")
        total == pos + neg
    IN IF total = 0 THEN <<Ratio(1, 1), 0>> ELSE <<Ratio(pos, total), total>>

calculate_accuracy(S, user_id) ==
    LET pos == sum_column(S, SightingsOf(S, user_id), "positive")
        neg == sum_column(S, SightingsOf(S, user_id), "negative")
        total == pos + neg
    IN IF total = 0 THEN <<Ratio(0, 1), 0>> ELSE <<Ratio(pos, total), total>>

\* --- moderation tables
is_banned(user_id) == \E b \in banned_users : b.telegram_id = user_id

ban_user(B, user_id, banned_by, reason) ==
    {b \in B : b.telegram_id # user_id}
        \cup {[telegram_id |-> user_id, banned_by |-> banned_by, reason |-> reason]}

unban_user(B, user_id) == {b \in B : b.telegram_id # user_id}

increment_warnings(U, user_id) ==
    IF user_id \in DOMAIN U THEN [U EXCEPT ![user_id].warnings = @ + 1] ELSE U

reset_warnings(U, user_id) ==
    IF user_id \in DOMAIN U THEN [U EXCEPT ![user_id].warnings = 0] ELSE U

flag_sighting(S, sighting_id) ==
    IF sighting_id \in DOMAIN S THEN [S EXCEPT ![sighting_id].flagged = 1] ELSE S

log_admin_action(L, admin_id, action, target) ==
    Append(L, [admin_id |-> admin_id, action |-> action, target |-> target])

\* ------------------------------------------- bot/services/notifications.py
\* a loop without "if uid == reporter_id: continue"
Recipients_with_reporter(zone_name, reporter_id) == get_zone_subscribers(zone_name)

Recipients(zone_name, reporter_id) == get_zone_subscribers(zone_name) \ {reporter_id}

\* a handler that records every failed recipient as blocked
BlockedUsers_any_failure(outcome) ==
    {uid \in DOMAIN outcome : outcome[uid] # "delivered"}

BlockedUsers(outcome) == {uid \in DOMAIN outcome : outcome[uid] = "forbidden"}

SentCount(outcome) == Cardinality({uid \in DOMAIN outcome : outcome[uid] = "delivered"})

FailedCount(outcome) == Cardinality({uid \in DOMAIN outcome : outcome[uid] # "delivered"})

\* the clean-up loop: clear_subscriptions for every blocked user, except
\* where the call raised (prune_failed), which is logged and skipped
\* a clean-up loop that gives up at the first clear_subscriptions that raises
PruneBlocked_abort_on_failure(subs, outcome, prune_failed) ==
    IF prune_failed = {} THEN {p \in subs : p[1] \notin BlockedUsers(outcome)}
    ELSE subs

PruneBlocked(subs, outcome, prune_failed) ==
    {p \in subs : p[1] \notin (BlockedUsers(outcome) \ prune_failed)}

\* ------------------------------------------------- bot/handlers/report.py
wait_secs_of(user_id) ==
    LET oldest == get_oldest_report_since(user_id, now - HOUR)
    IN IF oldest # NoTime THEN oldest + HOUR - now ELSE 3600

\* whole minutes only, dropping the seconds beyond them
wait_mins_floor(wait_secs) == Max(1, TruncDiv(wait_secs, 60))

wait_mins_of(wait_secs) == Max(1, TruncDiv(wait_secs, 60) + 1)

\* a limiter that lets one report too many through
RateLimited_above_max(user_id) ==
    count_reports_since(user_id, now - HOUR) > MAX_REPORTS_PER_HOUR

RateLimited(user_id) == count_reports_since(user_id, now - HOUR) >= MAX_REPORTS_PER_HOUR

\* One pass of the for loop over recent_sightings from position i on: the id
\* of the sighting the report is a duplicate of, or 0 when the loop runs out.
\* a loop that takes the distance whether or not a fix is missing
has_both_gps_always(lat, existing_lat) == TRUE

\* GPS on both sides: the pending report's and the stored sighting's
has_both_gps(lat, existing_lat) == lat # NoGPS /\ existing_lat # NoGPS

\* the loop over recent_sightings: the id of the first sighting that makes the
\* report a duplicate, 0 when the loop runs to its end
RECURSIVE ScanDuplicates(_, _, _)
ScanDuplicates(recent, i, lat) ==
    IF i > Len(recent) THEN 0
    ELSE LET existing == sightings[recent[i]]
         IN IF has_both_gps(lat, existing.lat)
            THEN IF haversine_meters(lat, existing.lat) > DUPLICATE_RADIUS_METERS
                 THEN ScanDuplicates(recent, i + 1, lat)
                 ELSE recent[i]
            ELSE recent[i]

ReportReply(user_id, zone_name, lat, result) ==
    [NoReply EXCEPT !.op = "report", !.user = user_id, !.result = result,
                    !.at = now, !.zone = zone_name, !.lat = lat]

\* a handler that looks for duplicates before it applies the rate limit
handle_report_confirm_duplicate_first(user_id, zone_name, lat, Outcomes, PruneMayFail) ==
    /\ \E recent \in find_recent_zone_sightings(zone_name, DUPLICATE_WINDOW_MINUTES) :
         LET matched == ScanDuplicates(recent, 1, lat)
         IN IF matched # 0
            THEN /\ reply' = [ReportReply(user_id, zone_name, lat, "duplicate") EXCEPT
                                 !.matched = matched]
                 /\ UNCHANGED <<nextId, store>>
            ELSE IF RateLimited(user_id)
            THEN /\ reply' = [ReportReply(user_id, zone_name, lat, "rate_limited") EXCEPT
                                 !.wait_secs = wait_secs_of(user_id),
                                 !.wait_mins = wait_mins_of(wait_secs_of(user_id))]
                 /\ UNCHANGED <<nextId, store>>
            ELSE \E outcome \in [Recipients(zone_name, user_id) -> Outcomes] :
                 \E prune_failed \in
                       (IF PruneMayFail THEN SUBSET BlockedUsers(outcome) ELSE {{}}) :
                   /\ users' = increment_report_count(ensure_user(users, user_id), user_id)
                   /\ sightings' = add_sighting(sightings, nextId, zone_name, now,
                                                user_id, lat)
                   /\ nextId' = nextId + 1
                   /\ subscriptions' = PruneBlocked(subscriptions, outcome, prune_failed)
                   /\ reply' = [ReportReply(user_id, zone_name, lat, "accepted") EXCEPT
                                   !.sid = nextId,
                                   !.sent = SentCount(outcome),
                                   !.failed = FailedCount(outcome),
                                   !.blocked = BlockedUsers(outcome),
                                   !.recipients = DOMAIN outcome,
                                   !.outcome = outcome,
                                   !.prune_failed = prune_failed]
                   /\ UNCHANGED <<feedback, banned_users, admin_actions>>
    /\ UNCHANGED <<now, advances, driver, calls, session>>

\* a handler that counts a report for its reporter before it checks anything
submit_report_counting_attempts(user_id, zone_name, lat, Outcomes, PruneMayFail) ==
    /\ IF RateLimited(user_id)
       THEN /\ reply' = [ReportReply(user_id, zone_name, lat, "rate_limited") EXCEPT
                            !.wait_secs = wait_secs_of(user_id),
                            !.wait_mins = wait_mins_of(wait_secs_of(user_id))]
            /\ users' = increment_report_count(ensure_user(users, user_id), user_id)
            /\ UNCHANGED <<nextId, subscriptions, sightings, feedback, banned_users,
                           admin_actions>>
       ELSE \E recent \in find_recent_zone_sightings(zone_name, DUPLICATE_WINDOW_MINUTES) :
              LET matched == ScanDuplicates(recent, 1, lat)
              IN IF matched # 0
                 THEN /\ reply' = [ReportReply(user_id, zone_name, lat, "duplicate") EXCEPT
                                      !.matched = matched]
                      /\ users' = increment_report_count(ensure_user(users, user_id), user_id)
                      /\ UNCHANGED <<nextId, subscriptions, sightings, feedback,
                                     banned_users, admin_actions>>
                 ELSE \E outcome \in [Recipients(zone_name, user_id) -> Outcomes] :
                      \E prune_failed \in
                            (IF PruneMayFail THEN SUBSET BlockedUsers(outcome) ELSE {{}}) :
                        /\ users' = increment_report_count(ensure_user(users, user_id), user_id)
                        /\ sightings' = add_sighting(sightings, nextId, zone_name, now,
                                                     user_id, lat)
                        /\ nextId' = nextId + 1
                        /\ subscriptions' = PruneBlocked(subscriptions, outcome, prune_failed)
                        /\ reply' = [ReportReply(user_id, zone_name, lat, "accepted") EXCEPT
                                        !.sid = nextId,
                                        !.sent = SentCount(outcome),
                                        !.failed = FailedCount(outcome),
                                        !.blocked = BlockedUsers(outcome),
                                        !.recipients = DOMAIN outcome,
                                        !.outcome = outcome,
                                        !.prune_failed = prune_failed]
                        /\ UNCHANGED <<feedback, banned_users, admin_actions>>

\* the handler from the rate limit to the broadcast (report.py 248-358)
submit_report(user_id, zone_name, lat, Outcomes, PruneMayFail) ==
    /\ IF RateLimited(user_id)
       THEN /\ reply' = [ReportReply(user_id, zone_name, lat, "rate_limited") EXCEPT
                            !.wait_secs = wait_secs_of(user_id),
                            !.wait_mins = wait_mins_of(wait_secs_of(user_id))]
            /\ UNCHANGED <<nextId, store>>
       ELSE \E recent \in find_recent_zone_sightings(zone_name, DUPLICATE_WINDOW_MINUTES) :
              LET matched == ScanDuplicates(recent, 1, lat)
              IN IF matched # 0
                 THEN /\ reply' = [ReportReply(user_id, zone_name, lat, "duplicate") EXCEPT
                                      !.matched = matched]
                      /\ UNCHANGED <<nextId, store>>
                 ELSE \E outcome \in [Recipients(zone_name, user_id) -> Outcomes] :
                      \E prune_failed \in
                            (IF PruneMayFail THEN SUBSET BlockedUsers(outcome) ELSE {{}}) :
                        /\ users' = increment_report_count(ensure_user(users, user_id), user_id)
                        /\ sightings' = add_sighting(sightings, nextId, zone_name, now,
                                                     user_id, lat)
                        /\ nextId' = nextId + 1
                        /\ subscriptions' = PruneBlocked(subscriptions, outcome, prune_failed)
                        /\ reply' = [ReportReply(user_id, zone_name, lat, "accepted") EXCEPT
                                        !.sid = nextId,
                                        !.sent = SentCount(outcome),
                                        !.failed = FailedCount(outcome),
                                        !.blocked = BlockedUsers(outcome),
                                        !.recipients = DOMAIN outcome,
                                        !.outcome = outcome,
                                        !.prune_failed = prune_failed]
                        /\ UNCHANGED <<feedback, banned_users, admin_actions>>

\* the confirm of a report whose pending zone and coordinates are the inputs
handle_report_confirm(user_id, zone_name, lat, Outcomes, PruneMayFail) ==
    /\ submit_report(user_id, zone_name, lat, Outcomes, PruneMayFail)
    /\ UNCHANGED <<now, advances, driver, calls, session>>

\* --- Database.apply_feedback run without interruption: read the previous
\* vote, upsert the vote, add the deltas to the counters.
apply_feedback_votes(sighting_id, user_id, new_vote) ==
    upsert_feedback(feedback, sighting_id, user_id, new_vote)

apply_feedback_counts(sighting_id, user_id, new_vote) ==
    LET previous_vote == get_user_feedback(feedback, sighting_id, user_id)
    IN update_feedback_counts(sightings, sighting_id,
                              pos_delta(previous_vote, new_vote),
                              neg_delta(previous_vote, new_vote))

\* ----------------------------------------------- bot/services/moderation.py
\* a threshold that a ratio of exactly 0.7 already meets
ShouldFlag_at_threshold(pos, neg) == (pos + neg >= 3) /\ (10 * neg >= 7 * (pos + neg))

ShouldFlag(pos, neg) == (pos + neg >= 3) /\ (10 * neg > 7 * (pos + neg))

\* a check that writes the outcome of the test, whichever it is
check_auto_flag_both_ways(S, sighting_id) ==
    IF sighting_id \notin DOMAIN S THEN S
    ELSE [S EXCEPT ![sighting_id].flagged =
              IF ShouldFlag(S[sighting_id].feedback_positive,
                            S[sighting_id].feedback_negative) THEN 1 ELSE 0]

check_auto_flag(S, sighting_id) ==
    IF sighting_id \notin DOMAIN S THEN S
    ELSE IF ShouldFlag(S[sighting_id].feedback_positive, S[sighting_id].feedback_negative)
         THEN flag_sighting(S, sighting_id)
         ELSE S

\* ------------------------------------------------- bot/handlers/report.py
\* a window that shuts one instant early
WindowClosed_at_boundary(sighting_id) ==
    now - sightings[sighting_id].reported_at >= FEEDBACK_WINDOW_HOURS * HOUR

WindowClosed(sighting_id) ==
    now - sightings[sighting_id].reported_at > FEEDBACK_WINDOW_HOURS * HOUR

\* a check that lets the reporter through
is_self_vote_never(reporter_id, user_id) == FALSE

\* if reporter_id == user_id
is_self_vote(reporter_id, user_id) == reporter_id = user_id

\* the checks with the window looked at before the reporter
feedback_result_window_first(user_id, sighting_id, new_vote) ==
    IF sighting_id \notin DOMAIN sightings THEN "expired"
    ELSE IF WindowClosed(sighting_id) THEN "window_closed"
    ELSE IF is_self_vote(sightings[sighting_id].reporter_id, user_id) THEN "self_vote"
    ELSE IF get_user_feedback(feedback, sighting_id, user_id) = new_vote
    THEN "duplicate_vote"
    ELSE "recorded"

\* the answer of the handler: the first check that fails, in the order of
\* the code (get_sighting_reporter is None, reporter_id == user_id,
\* sighting_age > window, ValueError from apply_feedback)
feedback_result(user_id, sighting_id, new_vote) ==
    IF sighting_id \notin DOMAIN sightings THEN "expired"
    ELSE IF is_self_vote(sightings[sighting_id].reporter_id, user_id) THEN "self_vote"
    ELSE IF WindowClosed(sighting_id) THEN "window_closed"
    ELSE IF get_user_feedback(feedback, sighting_id, user_id) = new_vote
    THEN "duplicate_vote"
    ELSE "recorded"

FeedbackReply(user_id, sighting_id, new_vote, result) ==
    [NoReply EXCEPT !.op = "feedback", !.user = user_id, !.sid = sighting_id,
                    !.vote = new_vote, !.result = result, !.at = now,
                    !.previous = get_user_feedback(feedback, sighting_id, user_id)]

handle_feedback(user_id, sighting_id, new_vote) ==
    LET result == feedback_result(user_id, sighting_id, new_vote)
    IN /\ reply' = FeedbackReply(user_id, sighting_id, new_vote, result)
       /\ IF result = "recorded"
          THEN /\ feedback' = apply_feedback_votes(sighting_id, user_id, new_vote)
               /\ sightings' = check_auto_flag(
                                   apply_feedback_counts(sighting_id, user_id, new_vote),
                                   sighting_id)
          ELSE UNCHANGED <<sightings, feedback>>
       /\ UNCHANGED <<now, advances, nextId, users, subscriptions, banned_users,
                      admin_actions, driver, calls, session>>

\* ------------------------------------------------------------ bot/main.py
cleanup_job ==
    LET ids == ExpiredIds(SIGHTING_RETENTION_DAYS)
    IN /\ feedback' = delete_feedback_of(feedback, ids)
       /\ sightings' = delete_sightings(sightings, ids)
       /\ reply' = [NoReply EXCEPT !.op = "cleanup", !.deleted = Cardinality(ids)]
       /\ UNCHANGED <<now, advances, nextId, users, subscriptions, banned_users,
                      admin_actions, driver, calls, session>>

\* the clock moves on by d seconds
Advance(d, max_advances) ==
    /\ advances < max_advances
    /\ now' = now + d
    /\ advances' = advances + 1
    /\ UNCHANGED <<nextId, store, reply, driver, calls, session>>

\* the user who was just told to try again in ~w minutes lets w minutes pass
AwaitRetry(max_advances) ==
    /\ reply.op = "report" /\ reply.result = "rate_limited" /\ reply.at = now
    /\ Advance(reply.wait_mins * MINUTE, max_advances)

\* --------------------------------------------------- bot/handlers/user.py
\* a tap on a zone button: toggle the subscription
handle_zone_selection(user_id, zone_name) ==
    /\ IF zone_name \in get_subscriptions(user_id)
       THEN /\ subscriptions' = remove_subscription(subscriptions, user_id, zone_name)
            /\ reply' = [NoReply EXCEPT !.op = "zone", !.user = user_id,
                                        !.result = "unsubscribed"]
       ELSE /\ subscriptions' = add_subscription(subscriptions, user_id, zone_name)
            /\ reply' = [NoReply EXCEPT !.op = "zone", !.user = user_id,
                                        !.result = "subscribed"]
    /\ UNCHANGED <<now, advances, nextId, users, sightings, feedback, banned_users,
                   admin_actions, driver, calls, session>>

\* a tap on a button of the /unsubscribe keyboard: one zone, or "unsub_all"
handle_unsubscribe_callback(user_id, data) ==
    /\ IF data = "unsub_all"
       THEN subscriptions' = clear_subscriptions(subscriptions, user_id)
       ELSE subscriptions' = remove_subscription(subscriptions, user_id, data)
    /\ reply' = [NoReply EXCEPT !.op = "unsub", !.user = user_id, !.result = "unsubscribed"]
    /\ UNCHANGED <<now, advances, nextId, users, sightings, feedback, banned_users,
                   admin_actions, driver, calls, session>>

\* /subscribe, behind @ban_check: a banned user gets the restriction message,
\* anybody else the region keyboard
subscribe(user_id) ==
    /\ reply' = [NoReply EXCEPT !.op = "subscribe", !.user = user_id,
                                !.result = IF is_banned(user_id) THEN "restricted"
                                           ELSE "keyboard"]
    /\ UNCHANGED <<now, advances, nextId, store, driver, calls, session>>

\* -------------------------------------------------- bot/handlers/admin.py
AdminReply(admin_id, op, target, result) ==
    [NoReply EXCEPT !.op = op, !.user = admin_id, !.target = target, !.result = result]

AutoBanReason(new_count) == "Auto-ban: " \o ToString(new_count) \o " warnings reached"

\* --- bot/utils.py
\* tiers whose lower bounds are exclusive
get_reporter_badge_exclusive(report_count) ==
    IF report_count > 51 THEN "Veteran"
    ELSE IF report_count > 11 THEN "Trusted"
    ELSE IF report_count > 3 THEN "Regular"
    ELSE "New"

get_reporter_badge(report_count) ==
    IF report_count >= 51 THEN "Veteran"
    ELSE IF report_count >= 11 THEN "Trusted"
    ELSE IF report_count >= 3 THEN "Regular"
    ELSE "New"

\* /mystats: the caller's badge and accuracy, once the caller has reported
mystats(user_id) ==
    /\ IF user_id \notin DOMAIN users \/ users[user_id].report_count = 0
       THEN reply' = [NoReply EXCEPT !.op = "mystats", !.user = user_id,
                                     !.result = "no_reports", !.at = now]
       ELSE LET acc == calculate_accuracy(sightings, user_id)
            IN reply' = [NoReply EXCEPT !.op = "mystats", !.user = user_id,
                                        !.result = "stats", !.at = now,
                                        !.badge = get_reporter_badge(
                                                      users[user_id].report_count),
                                        !.score = acc[1], !.total = acc[2]]
    /\ UNCHANGED <<now, advances, nextId, store, driver, calls, session>>

\* a wrapper that lets every caller through
admin_only_open(user_id, op, target, Handler) == Handler

\* @admin_only: anybody else is told "Unknown command"
admin_only(user_id, op, target, Handler) ==
    IF user_id \notin ADMIN_USER_IDS
    THEN /\ reply' = AdminReply(user_id, op, target, "unknown_command")
         /\ UNCHANGED <<now, advances, nextId, store, driver, calls, session>>
    ELSE Handler

\* the answer to /admin ban, with the reason the admin gave
BanReply(admin_id, target_id, result, reason) ==
    [AdminReply(admin_id, "ban", target_id, result) EXCEPT !.reason = reason]

admin_ban(admin_id, target_id, reason) ==
    /\ IF target_id \in ADMIN_USER_IDS
       THEN /\ reply' = BanReply(admin_id, target_id, "cannot_ban_admin", reason)
            /\ UNCHANGED <<subscriptions, banned_users, admin_actions>>
       ELSE IF is_banned(target_id)
       THEN /\ reply' = BanReply(admin_id, target_id, "already_banned", reason)
            /\ UNCHANGED <<subscriptions, banned_users, admin_actions>>
       ELSE /\ Len(admin_actions) < MaxLog
            /\ banned_users' = ban_user(banned_users, target_id, admin_id, reason)
            /\ subscriptions' = clear_subscriptions(subscriptions, target_id)
            /\ admin_actions' = log_admin_action(admin_actions, admin_id, "ban_user", target_id)
            /\ reply' = BanReply(admin_id, target_id, "banned", reason)
    /\ UNCHANGED <<now, advances, nextId, users, sightings, feedback, driver, calls, session>>

admin_unban(admin_id, target_id) ==
    /\ IF ~is_banned(target_id)
       THEN /\ reply' = AdminReply(admin_id, "unban", target_id, "not_banned")
            /\ UNCHANGED <<users, banned_users, admin_actions>>
       ELSE /\ Len(admin_actions) < MaxLog
            /\ banned_users' = unban_user(banned_users, target_id)
            /\ users' = reset_warnings(users, target_id)
            /\ admin_actions' = log_admin_action(admin_actions, admin_id, "unban_user", target_id)
            /\ reply' = AdminReply(admin_id, "unban", target_id, "unbanned")
    /\ UNCHANGED <<now, advances, nextId, subscriptions, sightings, feedback, driver, calls, session>>

\* a threshold that the count has to exceed
auto_ban_due_above(new_count) == MAX_WARNINGS > 0 /\ new_count > MAX_WARNINGS

auto_ban_due(new_count) == MAX_WARNINGS > 0 /\ new_count >= MAX_WARNINGS

admin_warn(admin_id, target_id) ==
    /\ IF target_id \notin DOMAIN users
       THEN /\ reply' = AdminReply(admin_id, "warn", target_id, "user_not_found")
            /\ UNCHANGED <<users, subscriptions, banned_users, admin_actions>>
       ELSE LET new_count == users[target_id].warnings + 1
                warned == log_admin_action(admin_actions, admin_id, "warn_user", target_id)
            IN /\ users' = increment_warnings(users, target_id)
               /\ IF auto_ban_due(new_count)
                  THEN /\ Len(admin_actions) + 1 < MaxLog
                       /\ banned_users' = ban_user(banned_users, target_id, admin_id,
                                                   AutoBanReason(new_count))
                       /\ subscriptions' = clear_subscriptions(subscriptions, target_id)
                       /\ admin_actions' = log_admin_action(warned, admin_id, "auto_ban",
                                                            target_id)
                       /\ reply' = AdminReply(admin_id, "warn", target_id, "auto_banned")
                  ELSE /\ Len(admin_actions) < MaxLog
                       /\ admin_actions' = warned
                       /\ reply' = AdminReply(admin_id, "warn", target_id, "warned")
                       /\ UNCHANGED <<subscriptions, banned_users>>
    /\ UNCHANGED <<now, advances, nextId, sightings, feedback, driver, calls, session>>

\* a delete that does not ask for the confirm argument
admin_delete_unconfirmed(admin_id, sighting_id, confirm) ==
    /\ IF sighting_id \notin DOMAIN sightings
       THEN /\ reply' = AdminReply(admin_id, "delete", sighting_id, "not_found")
            /\ UNCHANGED <<sightings, feedback, admin_actions>>
       ELSE /\ Len(admin_actions) < MaxLog
            /\ sightings' = delete_sightings(sightings, {sighting_id})
            /\ feedback' = delete_feedback_of(feedback, {sighting_id})
            /\ admin_actions' = log_admin_action(admin_actions, admin_id, "delete_sighting",
                                                 sighting_id)
            /\ reply' = AdminReply(admin_id, "delete", sighting_id, "deleted")
    /\ UNCHANGED <<now, advances, nextId, users, subscriptions, banned_users, driver, calls, session>>

admin_delete(admin_id, sighting_id, confirm) ==
    /\ IF sighting_id \notin DOMAIN sightings
       THEN /\ reply' = AdminReply(admin_id, "delete", sighting_id, "not_found")
            /\ UNCHANGED <<sightings, feedback, admin_actions>>
       ELSE IF ~confirm
       THEN /\ reply' = AdminReply(admin_id, "delete", sighting_id, "confirm_required")
            /\ UNCHANGED <<sightings, feedback, admin_actions>>
       ELSE /\ Len(admin_actions) < MaxLog
            /\ sightings' = delete_sightings(sightings, {sighting_id})
            /\ feedback' = delete_feedback_of(feedback, {sighting_id})
            /\ admin_actions' = log_admin_action(admin_actions, admin_id, "delete_sighting",
                                                 sighting_id)
            /\ reply' = AdminReply(admin_id, "delete", sighting_id, "deleted")
    /\ UNCHANGED <<now, advances, nextId, users, subscriptions, banned_users, driver, calls, session>>

\* ------------------------------ bot/handlers/report.py: the conversation
\* ConversationHandler keeps one state per (chat, user), context.user_data is
\* one dict per user.  Each handler below runs only in the states in which
\* main() registers it; /report and /cancel are fallbacks of every state.
ZONES == [central |-> {"Bugis", "Orchard"}]

\* Bugis and Orchard lie some 2.6 km apart; both are put on the meridian
ZONE_COORDS == <<[zone |-> "Bugis", lat |-> 0], [zone |-> "Orchard", lat |-> 2600]>>

\* the loop of handle_location over ZONE_COORDS: a zone replaces the nearest
\* one found so far only when it is strictly nearer
RECURSIVE NearestFrom(_, _, _, _)
NearestFrom(i, lat, nearest_zone, min_dist) ==
    IF i > Len(ZONE_COORDS) THEN nearest_zone
    ELSE LET dist == haversine_meters(lat, ZONE_COORDS[i].lat)
         IN IF nearest_zone = None \/ dist < min_dist
            THEN NearestFrom(i + 1, lat, ZONE_COORDS[i].zone, dist)
            ELSE NearestFrom(i + 1, lat, nearest_zone, min_dist)

nearest_zone_of(lat) == NearestFrom(1, lat, None, 0)

\* text.strip() and the cleanups of sanitize_description, on the texts used
sanitize_description(text) == IF text \in {"", " "} THEN None ELSE text

\* a cancel that forgets the zone but keeps the rest of the pending report
clear_pending_zone_only(ud) == [ud EXCEPT !.zone = None]

\* the four context.user_data.pop(...) of the cancel handlers and of a
\* successful confirm
clear_pending(ud) == [ud EXCEPT !.zone = None, !.description = None, !.lat = NoGPS]

ConvReply(op, chat, user_id, result) ==
    [NoReply EXCEPT !.op = op, !.user = user_id, !.chat = chat, !.result = result,
                    !.at = now]

StateOf(chat, user_id) == conversations[<<chat, user_id>>]

GoTo(chat, user_id, state) ==
    conversations' = [conversations EXCEPT ![<<chat, user_id>>] = state]

\* /report, wrapped by @ban_check: entry point and fallback
report(chat, user_id) ==
    /\ IF is_banned(user_id)
       THEN /\ reply' = ConvReply("report_start", chat, user_id, "restricted")
            /\ UNCHANGED conversations
       ELSE /\ reply' = ConvReply("report_start", chat, user_id, "choose_method")
            /\ GoTo(chat, user_id, CHOOSING_METHOD)
    /\ UNCHANGED <<now, advances, nextId, store, driver, calls, user_data, in_flight>>

handle_report_location_button(chat, user_id) ==
    /\ StateOf(chat, user_id) = CHOOSING_METHOD
    /\ reply' = ConvReply("report_location", chat, user_id, "share_location")
    /\ GoTo(chat, user_id, AWAITING_LOCATION)
    /\ UNCHANGED <<now, advances, nextId, store, driver, calls, user_data, in_flight>>

handle_location_cancel_text(chat, user_id) ==
    /\ StateOf(chat, user_id) = AWAITING_LOCATION
    /\ user_data' = [user_data EXCEPT ![user_id] = clear_pending(@)]
    /\ reply' = ConvReply("location_cancel", chat, user_id, "cancelled")
    /\ GoTo(chat, user_id, END)
    /\ UNCHANGED <<now, advances, nextId, store, driver, calls, in_flight>>

handle_report_manual(chat, user_id) ==
    /\ StateOf(chat, user_id) \in {CHOOSING_METHOD, AWAITING_DESCRIPTION}
    /\ reply' = ConvReply("report_manual", chat, user_id, "select_region")
    /\ GoTo(chat, user_id, SELECTING_REGION)
    /\ UNCHANGED <<now, advances, nextId, store, driver, calls, user_data, in_flight>>

handle_report_region_selection(chat, user_id, region_key) ==
    /\ StateOf(chat, user_id) = SELECTING_REGION
    /\ IF region_key \notin DOMAIN ZONES
       THEN /\ reply' = ConvReply("report_region", chat, user_id, "unknown_region")
            /\ GoTo(chat, user_id, SELECTING_REGION)
            /\ UNCHANGED user_data
       ELSE /\ user_data' = [user_data EXCEPT ![user_id].region = region_key]
            /\ reply' = ConvReply("report_region", chat, user_id, "select_zone")
            /\ GoTo(chat, user_id, SELECTING_ZONE)
    /\ UNCHANGED <<now, advances, nextId, store, driver, calls, in_flight>>

handle_report_back_to_regions(chat, user_id) ==
    /\ StateOf(chat, user_id) = SELECTING_ZONE
    /\ reply' = ConvReply("report_back_to_regions", chat, user_id, "select_region")
    /\ GoTo(chat, user_id, SELECTING_REGION)
    /\ UNCHANGED <<now, advances, nextId, store, driver, calls, user_data, in_flight>>

\* a zone picked by hand that leaves the pending coordinates alone
handle_report_zone_keeping_fix(chat, user_id, zone_name) ==
    /\ StateOf(chat, user_id) = SELECTING_ZONE
    /\ user_data' = [user_data EXCEPT ![user_id].zone = zone_name]
    /\ reply' = [ConvReply("report_zone", chat, user_id, "describe") EXCEPT
                    !.zone = zone_name, !.replaced_lat = user_data[user_id].lat]
    /\ GoTo(chat, user_id, AWAITING_DESCRIPTION)
    /\ UNCHANGED <<now, advances, nextId, store, driver, calls, in_flight>>

\* reply.replaced_lat is the latitude that was pending when the zone was tapped
handle_report_zone(chat, user_id, zone_name) ==
    /\ StateOf(chat, user_id) = SELECTING_ZONE
    /\ user_data' = [user_data EXCEPT ![user_id].zone = zone_name,
                                      ![user_id].lat = NoGPS]
    /\ reply' = [ConvReply("report_zone", chat, user_id, "describe") EXCEPT
                    !.zone = zone_name, !.replaced_lat = user_data[user_id].lat]
    /\ GoTo(chat, user_id, AWAITING_DESCRIPTION)
    /\ UNCHANGED <<now, advances, nextId, store, driver, calls, in_flight>>

handle_location(chat, user_id, lat) ==
    /\ StateOf(chat, user_id) = AWAITING_LOCATION
    /\ user_data' = [user_data EXCEPT ![user_id].zone = nearest_zone_of(lat),
                                      ![user_id].lat = lat]
    /\ reply' = [ConvReply("location", chat, user_id, "describe") EXCEPT
                    !.zone = nearest_zone_of(lat), !.lat = lat]
    /\ GoTo(chat, user_id, AWAITING_DESCRIPTION)
    /\ UNCHANGED <<now, advances, nextId, store, driver, calls, in_flight>>

handle_report_skip_description(chat, user_id) ==
    /\ StateOf(chat, user_id) = AWAITING_DESCRIPTION
    /\ user_data' = [user_data EXCEPT ![user_id].description = None]
    /\ reply' = ConvReply("report_skip_description", chat, user_id, "confirm")
    /\ GoTo(chat, user_id, CONFIRMING)
    /\ UNCHANGED <<now, advances, nextId, store, driver, calls, in_flight>>

handle_description_input(chat, user_id, text) ==
    /\ StateOf(chat, user_id) = AWAITING_DESCRIPTION
    /\ IF sanitize_description(text) = None
       THEN /\ reply' = ConvReply("description", chat, user_id, "empty")
            /\ GoTo(chat, user_id, AWAITING_DESCRIPTION)
            /\ UNCHANGED user_data
       ELSE /\ user_data' = [user_data EXCEPT
                                ![user_id].description = sanitize_description(text)]
            /\ reply' = ConvReply("description", chat, user_id, "confirm")
            /\ GoTo(chat, user_id, CONFIRMING)
    /\ UNCHANGED <<now, advances, nextId, store, driver, calls, in_flight>>

\* the Confirm button: handle_report_confirm on the pending report of the user
report_confirm(chat, user_id, Outcomes) ==
    /\ StateOf(chat, user_id) = CONFIRMING
    /\ LET zone_name == user_data[user_id].zone
       IN IF zone_name = None
          THEN /\ reply' = [ConvReply("report", chat, user_id, "expired") EXCEPT
                               !.zone = None]
               /\ UNCHANGED <<nextId, store, user_data>>
          ELSE /\ submit_report(user_id, zone_name, user_data[user_id].lat, Outcomes, FALSE)
               /\ user_data' = IF reply'.result = "accepted"
                               THEN [user_data EXCEPT ![user_id] = clear_pending(@)]
                               ELSE user_data
    /\ GoTo(chat, user_id, END)
    /\ UNCHANGED <<now, advances, driver, calls, in_flight>>

\* the Cancel button, offered in every state but CHOOSING_METHOD
handle_report_cancel(chat, user_id) ==
    /\ StateOf(chat, user_id) \in {SELECTING_REGION, SELECTING_ZONE, AWAITING_LOCATION,
                                   AWAITING_DESCRIPTION, CONFIRMING}
    /\ user_data' = [user_data EXCEPT ![user_id] = clear_pending(@)]
    /\ reply' = ConvReply("report_cancel", chat, user_id, "cancelled")
    /\ GoTo(chat, user_id, END)
    /\ UNCHANGED <<now, advances, nextId, store, driver, calls, in_flight>>

\* /cancel, a fallback of every state of a running conversation
cancel_report(chat, user_id) ==
    /\ StateOf(chat, user_id) # END
    /\ user_data' = [user_data EXCEPT ![user_id] = clear_pending(@)]
    /\ reply' = ConvReply("cancel", chat, user_id, "cancelled")
    /\ GoTo(chat, user_id, END)
    /\ UNCHANGED <<now, advances, nextId, store, driver, calls, in_flight>>

\* conversation_timeout=300: after 300 seconds in which no update arrived
\* every running conversation has ended; no handler runs and
\* context.user_data stays as it is
conversation_timeout(max_advances) ==
    /\ \E k \in DOMAIN conversations : conversations[k] # END
    /\ advances < max_advances
    /\ now' = now + CONVERSATION_TIMEOUT
    /\ advances' = advances + 1
    /\ conversations' = [k \in DOMAIN conversations |-> END]
    /\ UNCHANGED <<nextId, store, reply, driver, calls, user_data, in_flight>>

\* --------------------- bot/handlers/report.py: handle_report_confirm, by step
\* The handler awaits the database between its checks and its writes.  Each
\* task runs one call: ReportCheck is the rate limit and the duplicate scan
\* (248-299), ReportStore the writes and the broadcast (301-358).
accept_report(user_id, zone_name, lat, Outcomes, PruneMayFail) ==
    \E outcome \in [Recipients(zone_name, user_id) -> Outcomes] :
    \E prune_failed \in (IF PruneMayFail THEN SUBSET BlockedUsers(outcome) ELSE {{}}) :
        /\ users' = increment_report_count(ensure_user(users, user_id), user_id)
        /\ sightings' = add_sighting(sightings, nextId, zone_name, now, user_id, lat)
        /\ nextId' = nextId + 1
        /\ subscriptions' = PruneBlocked(subscriptions, outcome, prune_failed)
        /\ reply' = [ReportReply(user_id, zone_name, lat, "accepted") EXCEPT
                        !.sid = nextId,
                        !.sent = SentCount(outcome),
                        !.failed = FailedCount(outcome),
                        !.blocked = BlockedUsers(outcome),
                        !.recipients = DOMAIN outcome,
                        !.outcome = outcome,
                        !.prune_failed = prune_failed]
        /\ UNCHANGED <<feedback, banned_users, admin_actions>>

ReportCheck(t, user_id, zone_name, lat) ==
    /\ in_flight[t].pc = "idle"
    /\ IF RateLimited(user_id)
       THEN /\ reply' = [ReportReply(user_id, zone_name, lat, "rate_limited") EXCEPT
                            !.wait_secs = wait_secs_of(user_id),
                            !.wait_mins = wait_mins_of(wait_secs_of(user_id))]
            /\ UNCHANGED in_flight
       ELSE \E recent \in find_recent_zone_sightings(zone_name, DUPLICATE_WINDOW_MINUTES) :
              LET matched == ScanDuplicates(recent, 1, lat)
              IN IF matched # 0
                 THEN /\ reply' = [ReportReply(user_id, zone_name, lat, "duplicate") EXCEPT
                                      !.matched = matched]
                      /\ UNCHANGED in_flight
                 ELSE /\ in_flight' = [in_flight EXCEPT ![t] =
                              [pc |-> "store", user_id |-> user_id, zone |-> zone_name,
                               lat |-> lat]]
                      /\ UNCHANGED reply
    /\ UNCHANGED <<now, advances, nextId, store, driver, calls, user_data, conversations>>

\* writes that run only if the checks still pass when the sighting is stored
ReportStore_rechecking(t, Outcomes) ==
    LET c == in_flight[t]
    IN /\ c.pc = "store"
       /\ IF RateLimited(c.user_id)
             \/ \E recent \in find_recent_zone_sightings(c.zone, DUPLICATE_WINDOW_MINUTES) :
                    ScanDuplicates(recent, 1, c.lat) # 0
          THEN /\ reply' = ReportReply(c.user_id, c.zone, c.lat, "rejected_at_store")
               /\ UNCHANGED <<nextId, store>>
          ELSE accept_report(c.user_id, c.zone, c.lat, Outcomes, FALSE)
       /\ in_flight' = [in_flight EXCEPT ![t] = IdleReport]
       /\ UNCHANGED <<now, advances, driver, calls, user_data, conversations>>

ReportStore(t, Outcomes) ==
    LET c == in_flight[t]
    IN /\ c.pc = "store"
       /\ accept_report(c.user_id, c.zone, c.lat, Outcomes, FALSE)
       /\ in_flight' = [in_flight EXCEPT ![t] = IdleReport]
       /\ UNCHANGED <<now, advances, driver, calls, user_data, conversations>>

\* ------------------------- bot/database.py: Database.apply_feedback, by step
\* Each task runs one call.  Under the sqlite driver all calls share the one
\* connection: a statement acts on the tables at once and every other call
\* reads what it wrote.  Under the postgresql driver each call has its own
\* READ COMMITTED transaction: its writes are held back until it commits, the
\* upsert waits for another transaction's uncommitted write of the same
\* feedback row, and the UPDATE waits for another transaction's uncommitted
\* UPDATE of the same sightings row.
Tasks == {"a", "b"}

IdleCall == [pc |-> "idle", sighting_id |-> 0, user_id |-> 0, new_vote |-> None,
             previous_vote |-> None, failed_at |-> "none"]

Finished == {"done", "duplicate", "error"}

AllIdle == \A t \in Tasks : calls[t].pc = "idle"

HoldsFeedbackRow(t, sighting_id, user_id) ==
    /\ calls[t].pc \in {"update", "commit"}
    /\ calls[t].sighting_id = sighting_id
    /\ calls[t].user_id = user_id

HoldsSightingRow(t, sighting_id) ==
    /\ calls[t].pc = "commit"
    /\ calls[t].sighting_id = sighting_id

ApplyBegin(t, sighting_id, user_id, new_vote) ==
    /\ calls[t].pc = "idle"
    /\ sighting_id \in DOMAIN sightings
    /\ calls' = [calls EXCEPT ![t] = [IdleCall EXCEPT !.pc = "read",
                                         !.sighting_id = sighting_id,
                                         !.user_id = user_id,
                                         !.new_vote = new_vote]]
    /\ UNCHANGED <<now, advances, nextId, store, reply, driver, session>>

\* SELECT vote FROM feedback ...; raise ValueError("duplicate_vote")
ApplyRead(t) ==
    LET c == calls[t]
        previous_vote == get_user_feedback(feedback, c.sighting_id, c.user_id)
    IN /\ c.pc = "read"
       /\ calls' = [calls EXCEPT ![t].previous_vote = previous_vote,
                                 ![t].pc = IF previous_vote = c.new_vote
                                           THEN "duplicate" ELSE "upsert"]
       /\ UNCHANGED <<now, advances, nextId, store, reply, driver, session>>

\* INSERT INTO feedback ... ON CONFLICT ... DO UPDATE
ApplyUpsert(t) ==
    LET c == calls[t]
    IN /\ c.pc = "upsert"
       /\ IF driver = "sqlite"
          THEN feedback' = upsert_feedback(feedback, c.sighting_id, c.user_id, c.new_vote)
          ELSE /\ \A o \in Tasks \ {t} : ~HoldsFeedbackRow(o, c.sighting_id, c.user_id)
               /\ UNCHANGED feedback
       /\ calls' = [calls EXCEPT ![t].pc = "update"]
       /\ UNCHANGED <<now, advances, nextId, users, subscriptions, sightings,
                      banned_users, admin_actions, reply, driver, session>>

\* UPDATE sightings SET feedback_positive = feedback_positive + delta ...
ApplyUpdate(t) ==
    LET c == calls[t]
    IN /\ c.pc = "update"
       /\ IF driver = "sqlite"
          THEN sightings' = update_feedback_counts(sightings, c.sighting_id,
                                pos_delta(c.previous_vote, c.new_vote),
                                neg_delta(c.previous_vote, c.new_vote))
          ELSE /\ \A o \in Tasks \ {t} : ~HoldsSightingRow(o, c.sighting_id)
               /\ UNCHANGED sightings
       /\ calls' = [calls EXCEPT ![t].pc = "commit"]
       /\ UNCHANGED <<now, advances, nextId, users, subscriptions, feedback,
                      banned_users, admin_actions, reply, driver, session>>

\* commit (sqlite) or the end of "async with conn.transaction()" (postgresql)
ApplyCommit(t) ==
    LET c == calls[t]
    IN /\ c.pc = "commit"
       /\ IF driver = "sqlite"
          THEN UNCHANGED <<feedback, sightings>>
          ELSE /\ feedback' = upsert_feedback(feedback, c.sighting_id, c.user_id, c.new_vote)
               /\ sightings' = update_feedback_counts(sightings, c.sighting_id,
                                    pos_delta(c.previous_vote, c.new_vote),
                                    neg_delta(c.previous_vote, c.new_vote))
       /\ calls' = [calls EXCEPT ![t].pc = "done"]
       /\ UNCHANGED <<now, advances, nextId, users, subscriptions,
                      banned_users, admin_actions, reply, driver, session>>

\* The statement the call is about to run raises a storage error.  sqlite:
\* "except Exception: await self._conn.commit(); raise" keeps what the call
\* wrote so far.  postgresql: the transaction block rolls back.
ApplyFail(t) ==
    /\ calls[t].pc \in {"upsert", "update", "commit"}
    /\ calls' = [calls EXCEPT ![t].pc = "error", ![t].failed_at = calls[t].pc]
    /\ UNCHANGED <<now, advances, nextId, store, reply, driver, session>>

\* ------------------------------------------------------------------ specs
InitStore ==
    /\ now = 0
    /\ advances = 0
    /\ nextId = 1
    /\ users = <<>>
    /\ subscriptions = {}
    /\ sightings = <<>>
    /\ feedback = {}
    /\ banned_users = {}
    /\ admin_actions = <<>>
    /\ reply = NoReply
    /\ calls = [t \in Tasks |-> IdleCall]
    /\ user_data = [u \in Users |-> NoPending]
    /\ conversations = [k \in Chats \X Users |-> END]
    /\ in_flight = [t \in Tasks |-> IdleReport]

Init == InitStore /\ driver = "sqlite"

\* --- the feedback ledger, one handler at a time
LedgerReporters == {1}
LedgerVoters == {1, 2, 3}
LedgerZones == {"Bugis"}
LedgerSteps == {FEEDBACK_WINDOW_HOURS * HOUR, (SIGHTING_RETENTION_DAYS + 1) * DAY}
LedgerIds == 1 .. MaxLedgerSightings

NextLedger ==
    \/ \E u \in LedgerReporters, z \in LedgerZones :
            /\ nextId <= MaxLedgerSightings
            /\ handle_report_confirm(u, z, NoGPS, {"delivered"}, FALSE)
    \/ \E u \in LedgerVoters, s \in LedgerIds, v \in Votes : handle_feedback(u, s, v)
    \/ \E s \in LedgerIds, c \in BOOLEAN :
            admin_only(1, "delete", s, admin_delete(1, s, c))
    \/ cleanup_job
    \/ \E d \in LedgerSteps : Advance(d, MaxLedgerAdvances)

SpecLedger == Init /\ [][NextLedger]_vars

\* --- apply_feedback calls whose statements interleave, on either driver
InitConc == InitStore /\ driver \in {"sqlite", "postgresql"}

ConcReporters == {1}
ConcVoters == {2, 3}
ConcZones == {"Bugis"}
ConcIds == {1}

NextConc ==
    \/ \E u \in ConcReporters, z \in ConcZones :
            /\ AllIdle
            /\ nextId \in ConcIds
            /\ handle_report_confirm(u, z, NoGPS, {"delivered"}, FALSE)
    \/ \E u \in ConcVoters, s \in ConcIds, v \in Votes :
            /\ AllIdle
            /\ handle_feedback(u, s, v)
    \/ \E t \in Tasks, s \in ConcIds, u \in ConcVoters, v \in Votes : ApplyBegin(t, s, u, v)
    \/ \E t \in Tasks : ApplyRead(t)
    \/ \E t \in Tasks : ApplyUpsert(t)
    \/ \E t \in Tasks : ApplyUpdate(t)
    \/ \E t \in Tasks : ApplyCommit(t)
    \/ \E t \in Tasks : ApplyFail(t)

SpecConc == InitConc /\ [][NextConc]_vars

\* --- moderation: subscriptions, reports with their broadcast, bans, warnings
ModUsers == {1, 2}
ModZones == {"Bugis", "Orchard"}
ModSubscribedZones == {"Bugis"}
ModReasons == {None}
ModOutcomes == {"delivered", "forbidden"}

NextMod ==
    \/ \E u \in ModUsers, z \in ModZones :
            /\ nextId <= MaxModSightings
            /\ handle_report_confirm(u, z, NoGPS, ModOutcomes, TRUE)
    \/ \E u \in ModUsers : subscribe(u)
    \/ \E u \in ModUsers, z \in ModSubscribedZones : handle_zone_selection(u, z)
    \/ \E u \in ModUsers, d \in ModSubscribedZones \cup {"unsub_all"} :
            handle_unsubscribe_callback(u, d)
    \/ \E a \in ModUsers, u \in ModUsers, r \in ModReasons :
            admin_only(a, "ban", u, admin_ban(a, u, r))
    \/ \E a \in ModUsers, u \in ModUsers : admin_only(a, "unban", u, admin_unban(a, u))
    \/ \E a \in ModUsers, u \in ModUsers : admin_only(a, "warn", u, admin_warn(a, u))

SpecMod == Init /\ [][NextMod]_vars

\* ---- moderation of one user subscribed to several zones ----
BanCallers == {1, 2}
BanTargets == {2}
BanZones == {"Bugis", "Orchard"}

NextBan ==
    \/ \E u \in BanTargets, z \in BanZones : handle_zone_selection(u, z)
    \/ \E u \in BanTargets, z \in BanZones :
            /\ nextId <= MaxBanSightings
            /\ handle_report_confirm(u, z, NoGPS, {"delivered"}, FALSE)
    \/ \E a \in BanCallers, u \in BanTargets : admin_only(a, "ban", u, admin_ban(a, u, None))
    \/ \E a \in BanCallers, u \in BanTargets : admin_only(a, "unban", u, admin_unban(a, u))
    \/ \E a \in BanCallers, u \in BanTargets : admin_only(a, "warn", u, admin_warn(a, u))

SpecBan == Init /\ [][NextBan]_vars

\* --- repeated bans of one user, with and without a reason
RebanCallers == {1}
RebanTargets == {2}
RebanReasons == {None, "spam"}

NextReban ==
    \/ \E u \in RebanTargets :
            /\ nextId <= MaxRebanSightings
            /\ handle_report_confirm(u, "Bugis", NoGPS, {"delivered"}, FALSE)
    \/ \E a \in RebanCallers, u \in RebanTargets, r \in RebanReasons :
            admin_only(a, "ban", u, admin_ban(a, u, r))
    \/ \E a \in RebanCallers, u \in RebanTargets : admin_only(a, "unban", u, admin_unban(a, u))
    \/ \E a \in RebanCallers, u \in RebanTargets : admin_only(a, "warn", u, admin_warn(a, u))

SpecReban == Init /\ [][NextReban]_vars

\* --- many voters on one sighting: the auto-flag threshold
FlagReporters == {1}
FlagVoters == 2 .. (MaxFlagVoters + 1)
FlagIds == {1}

\* voters are interchangeable (the handler reads only the voter's own row and
\* the counters): a voter casts a first vote only after every voter with a
\* smaller id has cast one, and changes or repeats it only until the next
\* voter has voted
HasVoted(user_id, sighting_id) == get_user_feedback(feedback, sighting_id, user_id) # None

NextInLine(user_id, sighting_id) ==
    /\ \A w \in FlagVoters : w < user_id => HasVoted(w, sighting_id)
    /\ \A w \in FlagVoters : w > user_id => ~HasVoted(w, sighting_id)

NextFlag ==
    \/ \E u \in FlagReporters :
            /\ nextId <= 1
            /\ handle_report_confirm(u, "Bugis", NoGPS, {"delivered"}, FALSE)
    \/ \E u \in FlagVoters, s \in FlagIds, v \in Votes :
            /\ NextInLine(u, s)
            /\ handle_feedback(u, s, v)

SpecFlag == Init /\ [][NextFlag]_vars

\* --- accuracy of a reporter over votes, deletions and the retention sweep
AccuracyReporters == {1}
AccuracyVoters == {2, 3}
AccuracyIds == 1 .. MaxAccuracySightings
AccuracySteps == {(SIGHTING_RETENTION_DAYS + 1) * DAY}

NextAccuracy ==
    \/ \E u \in AccuracyReporters :
            /\ nextId <= MaxAccuracySightings
            /\ handle_report_confirm(u, "Bugis", NoGPS, {"delivered"}, FALSE)
    \/ \E u \in AccuracyVoters, s \in AccuracyIds, v \in Votes : handle_feedback(u, s, v)
    \/ \E u \in AccuracyReporters \cup AccuracyVoters : mystats(u)
    \/ \E s \in AccuracyIds : admin_only(1, "delete", s, admin_delete(1, s, TRUE))
    \/ cleanup_job
    \/ \E d \in AccuracySteps : Advance(d, MaxAccuracyAdvances)

SpecAccuracy == Init /\ [][NextAccuracy]_vars

\* --- the retention sweep around the horizon, and deletions with their votes
SweepReporters == {1}
SweepVoters == {2, 3}
SweepIds == 1 .. MaxSweepSightings
SweepDeleteIds == {1}
SweepSteps == {1, SIGHTING_RETENTION_DAYS * DAY}

NextSweep ==
    \/ \E u \in SweepReporters :
            /\ nextId <= MaxSweepSightings
            /\ handle_report_confirm(u, "Bugis", NoGPS, {"delivered"}, FALSE)
    \/ \E u \in SweepVoters, s \in SweepIds, v \in Votes : handle_feedback(u, s, v)
    \/ \E s \in SweepDeleteIds : admin_only(1, "delete", s, admin_delete(1, s, TRUE))
    \/ cleanup_job
    \/ \E d \in SweepSteps : Advance(d, MaxSweepAdvances)

SpecSweep == Init /\ [][NextSweep]_vars

\* --- the report counter across accepted and rejected reports, votes,
\* --- deletions, sweeps, bans and unbans
CountReporters == {2}
CountVoters == {3}
CountZones == {"Bugis", "Orchard", "Bedok"}
CountIds == {1}
CountSteps == {(SIGHTING_RETENTION_DAYS + 1) * DAY}

NextCount ==
    \/ \E u \in CountReporters, z \in CountZones :
            /\ nextId <= MaxCountSightings \/ RateLimited(u)
            /\ handle_report_confirm(u, z, NoGPS, {"delivered"}, FALSE)
    \/ \E u \in CountVoters, s \in CountIds, v \in Votes : handle_feedback(u, s, v)
    \/ \E s \in CountIds : admin_only(1, "delete", s, admin_delete(1, s, TRUE))
    \/ \E u \in CountReporters : admin_only(1, "ban", u, admin_ban(1, u, None))
    \/ \E u \in CountReporters : admin_only(1, "unban", u, admin_unban(1, u))
    \/ cleanup_job
    \/ \E d \in CountSteps : Advance(d, MaxCountAdvances)

SpecCount == Init /\ [][NextCount]_vars

\* --- /admin commands sent by an admin and by somebody else
AdminCallers == {1, 2}
AdminTargets == {3}
AdminReporters == {3}
AdminVoters == {2}
AdminIds == 1..2

NextAdmin ==
    \/ \E u \in AdminReporters, z \in Zones :
            /\ nextId <= MaxAdminSightings
            /\ handle_report_confirm(u, z, NoGPS, {"delivered"}, FALSE)
    \/ \E u \in AdminVoters, s \in AdminIds : handle_feedback(u, s, "negative")
    \/ \E c \in AdminCallers, u \in AdminTargets :
            admin_only(c, "ban", u, admin_ban(c, u, None))
    \/ \E c \in AdminCallers, u \in AdminTargets :
            admin_only(c, "unban", u, admin_unban(c, u))
    \/ \E c \in AdminCallers, u \in AdminTargets :
            admin_only(c, "warn", u, admin_warn(c, u))
    \/ \E c \in AdminCallers, s \in AdminIds, confirm \in BOOLEAN :
            admin_only(c, "delete", s, admin_delete(c, s, confirm))

SpecAdmin == Init /\ [][NextAdmin]_vars

\* --- the badge of a reporter whose lifetime count is anything up to a bound
BadgeReporters == {2}

InitBadge ==
    /\ now = 0
    /\ advances = 0
    /\ nextId = 1
    /\ \E n \in 0..MaxBadgeCount :
          users = [u \in BadgeReporters |-> [report_count |-> n, warnings |-> 0]]
    /\ subscriptions = {}
    /\ sightings = <<>>
    /\ feedback = {}
    /\ banned_users = {}
    /\ admin_actions = <<>>
    /\ reply = NoReply
    /\ calls = [t \in Tasks |-> IdleCall]
    /\ user_data = [u \in Users |-> NoPending]
    /\ conversations = [k \in Chats \X Users |-> END]
    /\ in_flight = [t \in Tasks |-> IdleReport]
    /\ driver = "sqlite"

NextBadge ==
    \/ \E u \in BadgeReporters : mystats(u)
    \/ \E u \in BadgeReporters, z \in Zones :
            /\ nextId <= MaxBadgeSightings
            /\ handle_report_confirm(u, z, NoGPS, {"delivered"}, FALSE)

SpecBadge == InitBadge /\ [][NextBadge]_vars

\* --- a reporter who is rate-limited and tries again after the advertised wait
RetryReporters == {2}
RetryZones == {"Bugis", "Orchard", "Bedok"}
RetrySteps == {90, 20 * MINUTE}

NextRetry ==
    \/ \E u \in RetryReporters, z \in RetryZones :
            /\ nextId <= MaxRetrySightings \/ RateLimited(u)
            /\ handle_report_confirm(u, z, NoGPS, {"delivered"}, FALSE)
    \/ \E d \in RetrySteps : Advance(d, MaxRetryAdvances)
    \/ AwaitRetry(MaxRetryAdvances)

SpecRetry == Init /\ [][NextRetry]_vars

\* --- the report conversation of one user in two chats
ConvReporters == {2}
ConvPoints == {50, 2500}
ConvTexts == {" ", "Blk 123"}
ConvRegions == {"central", "north"}

NextConv ==
    \/ \E c \in Chats, u \in ConvReporters : report(c, u)
    \/ \E c \in Chats, u \in ConvReporters : handle_report_location_button(c, u)
    \/ \E c \in Chats, u \in ConvReporters : handle_location_cancel_text(c, u)
    \/ \E c \in Chats, u \in ConvReporters : handle_report_manual(c, u)
    \/ \E c \in Chats, u \in ConvReporters, r \in ConvRegions :
            handle_report_region_selection(c, u, r)
    \/ \E c \in Chats, u \in ConvReporters : handle_report_back_to_regions(c, u)
    \/ \E c \in Chats, u \in ConvReporters, z \in Zones : handle_report_zone(c, u, z)
    \/ \E c \in Chats, u \in ConvReporters, lat \in ConvPoints : handle_location(c, u, lat)
    \/ \E c \in Chats, u \in ConvReporters : handle_report_skip_description(c, u)
    \/ \E c \in Chats, u \in ConvReporters, text \in ConvTexts :
            handle_description_input(c, u, text)
    \/ \E c \in Chats, u \in ConvReporters :
            /\ report_confirm(c, u, {"delivered"})
            /\ nextId' <= MaxConvSightings + 1
    \/ \E c \in Chats, u \in ConvReporters : handle_report_cancel(c, u)
    \/ \E c \in Chats, u \in ConvReporters : cancel_report(c, u)
    \/ conversation_timeout(MaxConvTimeouts)

SpecConv == Init /\ [][NextConv]_vars

\* --- a reporter who is banned and unbanned while reporting
BanConvChats == {1}
BanConvReporters == {2}
BanConvSubscribers == {3}
BanConvZones == {"Bugis", "Orchard"}

NextBanConv ==
    \/ \E u \in BanConvSubscribers, z \in BanConvZones : handle_zone_selection(u, z)
    \/ \E c \in BanConvChats, u \in BanConvReporters : report(c, u)
    \/ \E c \in BanConvChats, u \in BanConvReporters : handle_report_manual(c, u)
    \/ \E c \in BanConvChats, u \in BanConvReporters :
            handle_report_region_selection(c, u, "central")
    \/ \E c \in BanConvChats, u \in BanConvReporters, z \in BanConvZones :
            handle_report_zone(c, u, z)
    \/ \E c \in BanConvChats, u \in BanConvReporters : handle_report_skip_description(c, u)
    \/ \E c \in BanConvChats, u \in BanConvReporters :
            /\ report_confirm(c, u, {"delivered"})
            /\ nextId' <= MaxBanConvSightings + 1
    \/ \E c \in BanConvChats, u \in BanConvReporters : cancel_report(c, u)
    \/ \E u \in BanConvReporters : admin_only(1, "ban", u, admin_ban(1, u, None))
    \/ \E u \in BanConvReporters : admin_only(1, "unban", u, admin_unban(1, u))

SpecBanConv == Init /\ [][NextBanConv]_vars

\* --- handle_report_confirm calls whose checks and writes interleave
RaceReporters == {2, 3}
RaceSubscribers == {1}
RaceZones == {"Bugis", "Orchard", "Bedok"}

NextRace ==
    \/ \E u \in RaceSubscribers : handle_zone_selection(u, "Bugis")
    \/ \E t \in Tasks, u \in RaceReporters, z \in RaceZones :
            /\ nextId + Cardinality({o \in Tasks : in_flight[o].pc = "store"})
                   <= MaxRaceSightings
            /\ ReportCheck(t, u, z, NoGPS)
    \/ \E t \in Tasks : ReportStore(t, {"delivered"})

SpecRace == Init /\ [][NextRace]_vars

\* --- the stages of a report: rate limit, duplicates, store, broadcast
PipelineReporters == {2}
PipelineSubscribers == {3}
PipelineZones == {"Bugis", "Orchard", "Bedok"}
PipelineOutcomes == {"delivered", "error"}

NextPipeline ==
    \/ \E u \in PipelineSubscribers, z \in PipelineZones : handle_zone_selection(u, z)
    \/ \E u \in PipelineReporters, z \in PipelineZones :
            /\ nextId <= MaxPipelineSightings \/ RateLimited(u)
            /\ handle_report_confirm(u, z, NoGPS, PipelineOutcomes, FALSE)

SpecPipeline == Init /\ [][NextPipeline]_vars

\* --- the rate limiter: reports over a rolling hour
RateReporters == {1, 2}
RateZones == {"Bugis", "Orchard"}
RateSteps == {10 * MINUTE + 30, 49 * MINUTE + 30}

NextRate ==
    \/ \E u \in RateReporters, z \in RateZones :
            /\ nextId <= MaxRateSightings \/ RateLimited(u)
            /\ handle_report_confirm(u, z, NoGPS, {"delivered"}, FALSE)
    \/ \E d \in RateSteps : Advance(d, MaxRateAdvances)

SpecRate == Init /\ [][NextRate]_vars

\* --- duplicate suppression: reports with and without a GPS fix
DedupReporters == {1}
DedupZones == {"Bugis", "Orchard"}
DedupSteps == {4 * MINUTE, 1 * MINUTE}

NextDedup ==
    \/ \E u \in DedupReporters, z \in DedupZones, lat \in Points \cup {NoGPS} :
            /\ nextId <= MaxDedupSightings
            /\ handle_report_confirm(u, z, lat, {"delivered"}, FALSE)
    \/ \E d \in DedupSteps : Advance(d, MaxDedupAdvances)

SpecDedup == Init /\ [][NextDedup]_vars

\* --- the broadcast of an accepted report to the zone's subscribers
BroadcastUsers == {1, 2, 3}
BroadcastZones == {"Bugis", "Orchard"}
BroadcastOutcomes == {"delivered", "forbidden", "error"}

NextBroadcast ==
    \/ \E u \in BroadcastUsers, z \in BroadcastZones : handle_zone_selection(u, z)
    \/ \E u \in BroadcastUsers, z \in BroadcastZones :
            /\ nextId <= MaxBroadcastSightings
            /\ handle_report_confirm(u, z, NoGPS, BroadcastOutcomes, TRUE)

SpecBroadcast == Init /\ [][NextBroadcast]_vars

\* ----------------------------------------------------------------- claims
SomeSightingDeleted == nextId - 1 > Cardinality(DOMAIN sightings)

\* C1: in every state reached by accepted votes, vote changes, rejected votes
\* and sighting deletions, each stored sighting's feedback_positive is the
\* number of stored positive votes on it and its feedback_negative the number
\* of stored negative votes on it.
C1_CountersEqualVotes ==
    \A id \in DOMAIN sightings :
        /\ sightings[id].feedback_positive = Cardinality(VotesOn(feedback, id, "positive"))
        /\ sightings[id].feedback_negative = Cardinality(VotesOn(feedback, id, "negative"))

\* a vote was just changed on a sighting that carries votes of both kinds,
\* after another sighting was deleted
C1_Witness ==
    /\ reply.op = "feedback"
    /\ reply.result = "recorded"
    /\ reply.previous # None
    /\ SomeSightingDeleted
    /\ reply.sid \in DOMAIN sightings
    /\ sightings[reply.sid].feedback_positive >= 1
    /\ sightings[reply.sid].feedback_negative >= 1

CountersMatch(id) ==
    /\ sightings[id].feedback_positive = Cardinality(VotesOn(feedback, id, "positive"))
    /\ sightings[id].feedback_negative = Cardinality(VotesOn(feedback, id, "negative"))

\* C2: when two different voters call apply_feedback on the same sighting and
\* the read, upsert, update and commit steps of the two calls interleave, then
\* once both calls have returned both votes are stored and the sighting's
\* counters count both.
C2_NoLostUpdate ==
    \A a, b \in Tasks :
        (/\ a # b
         /\ calls[a].pc = "done" /\ calls[b].pc = "done"
         /\ calls[a].sighting_id = calls[b].sighting_id
         /\ calls[a].user_id # calls[b].user_id)
        => /\ get_user_feedback(feedback, calls[a].sighting_id, calls[a].user_id)
                = calls[a].new_vote
           /\ get_user_feedback(feedback, calls[b].sighting_id, calls[b].user_id)
                = calls[b].new_vote
           /\ CountersMatch(calls[a].sighting_id)

\* two voters finished overlapping calls on one sighting, one of them changing
\* an earlier vote, and the sighting now carries one vote of each kind
C2_Witness ==
    /\ calls["a"].pc = "done" /\ calls["b"].pc = "done"
    /\ calls["a"].sighting_id = calls["b"].sighting_id
    /\ calls["a"].user_id # calls["b"].user_id
    /\ calls["a"].previous_vote = None
    /\ calls["b"].previous_vote = "positive"
    /\ calls["a"].new_vote = "positive"
    /\ calls["b"].new_vote = "negative"
    /\ sightings[calls["a"].sighting_id].feedback_positive = 1
    /\ sightings[calls["a"].sighting_id].feedback_negative = 1

\* C3: when one voter issues two apply_feedback calls on one sighting at the
\* same time, with equal or opposite values, and their steps interleave, then
\* once both calls have finished the sighting's counters equal the stored vote
\* counts.
C3_DoubleTapCountedOnce ==
    \A a, b \in Tasks :
        (/\ a # b
         /\ calls[a].pc \in {"done", "duplicate"}
         /\ calls[b].pc \in {"done", "duplicate"}
         /\ calls[a].sighting_id = calls[b].sighting_id
         /\ calls[a].user_id = calls[b].user_id)
        => CountersMatch(calls[a].sighting_id)

\* C4: when apply_feedback fails with a storage error after its upsert and
\* before its counter update, with no other call running, the stored vote of
\* that voter is the one read before the call and the counters are unchanged,
\* hence still equal to the stored vote counts.
C4_AllOrNothing ==
    \A t \in Tasks :
        (/\ calls[t].pc = "error"
         /\ calls[t].failed_at = "update"
         /\ \A o \in Tasks \ {t} : calls[o].pc = "idle")
        => /\ get_user_feedback(feedback, calls[t].sighting_id, calls[t].user_id)
                = calls[t].previous_vote
           /\ CountersMatch(calls[t].sighting_id)

\* C5: in every state reached by bans, unbans, warnings, /subscribe, zone
\* toggles, unsubscriptions and reports with their broadcasts, a user who is
\* banned has no subscription.
C5_BannedHoldNoSubscriptions ==
    \A u \in Users : is_banned(u) => get_subscriptions(u) = {}

\* C6: in every reachable state no user id of ADMIN_USER_IDS is in the banned
\* set, whether the ban came from the ban command or from the warning
\* threshold.
C6_AdminNeverBanned ==
    \A u \in ADMIN_USER_IDS : ~is_banned(u)

\* the reporter's stored reports of the trailing hour
InTrailingHour(user_id) ==
    {id \in DOMAIN sightings : /\ sightings[id].reporter_id = user_id
                               /\ sightings[id].reported_at > now - HOUR}

\* the handler that wrote reply ran in the current instant
ReportJustHandled == reply.op = "report" /\ reply.at = now

\* C7: a report passes the rate limiter exactly when fewer than
\* MAX_REPORTS_PER_HOUR of the reporter's accepted reports lie in the trailing
\* hour: the max-th report of a rolling hour passes, the (max+1)-th is rejected.
C7_RateLimiter ==
    ReportJustHandled =>
        LET in_hour == Cardinality(InTrailingHour(reply.user))
            before == IF reply.result = "accepted" THEN in_hour - 1 ELSE in_hour
        IN (reply.result # "rate_limited") <=> (before < MAX_REPORTS_PER_HOUR)

\* a report is rejected with exactly MAX_REPORTS_PER_HOUR reports in the
\* trailing hour, after an older report of the same reporter left the hour
C7_Witness ==
    /\ ReportJustHandled
    /\ reply.result = "rate_limited"
    /\ Cardinality(InTrailingHour(reply.user)) = MAX_REPORTS_PER_HOUR
    /\ \E id \in DOMAIN sightings : /\ sightings[id].reporter_id = reply.user
                                     /\ sightings[id].reported_at <= now - HOUR

CeilDiv(a, b) == (a + b - 1) \div b

OldestInTrailingHour(user_id) ==
    CHOOSE t \in {sightings[id].reported_at : id \in InTrailingHour(user_id)} :
        \A id \in InTrailingHour(user_id) : t <= sightings[id].reported_at

\* C8: the wait advertised with a rate-limit rejection is (oldest report of
\* the trailing hour + 1 hour - now) in whole minutes, rounded up, and at
\* least 1.  Stated for rejections that come some time after that oldest
\* report.
C8_WaitRoundedUp ==
    (/\ ReportJustHandled
     /\ reply.result = "rate_limited"
     /\ now > OldestInTrailingHour(reply.user)) =>
        reply.wait_mins
            = Max(1, CeilDiv(OldestInTrailingHour(reply.user) + HOUR - now, 60))

\* the stored sightings of the reply's zone inside the duplicate window, the
\* one the report itself created excepted
Candidates ==
    {id \in DOMAIN sightings \ {reply.sid} :
        /\ sightings[id].zone = reply.zone
        /\ sightings[id].reported_at > now - DUPLICATE_WINDOW_MINUTES * MINUTE}

ReportScanned == ReportJustHandled /\ reply.result \in {"accepted", "duplicate"}

\* C9: when the report and a same-zone sighting of the duplicate window both
\* carry GPS, that sighting makes the report a duplicate if and only if the
\* two are at most DUPLICATE_RADIUS_METERS apart.
C9_GpsDuplicateWithinRadius ==
    (ReportScanned /\ reply.lat # NoGPS) =>
        /\ \A id \in Candidates :
              (sightings[id].lat # NoGPS
                  /\ Abs(reply.lat - sightings[id].lat) <= DUPLICATE_RADIUS_METERS)
              => reply.result = "duplicate"
        /\ (reply.result = "duplicate" /\ sightings[reply.matched].lat # NoGPS)
              => /\ reply.matched \in Candidates
                 /\ Abs(reply.lat - sightings[reply.matched].lat) <= DUPLICATE_RADIUS_METERS

\* a report 50 m from a sighting is rejected while the zone holds two
\* sightings of the window that lie 250 m apart
C9_Witness ==
    /\ ReportScanned
    /\ reply.result = "duplicate"
    /\ reply.lat # NoGPS
    /\ sightings[reply.matched].lat # NoGPS
    /\ Abs(reply.lat - sightings[reply.matched].lat) = 50
    /\ \E a, b \in Candidates :
          /\ has_both_gps(sightings[a].lat, sightings[b].lat)
          /\ Abs(sightings[a].lat - sightings[b].lat) = 250

\* C10: when the report or a same-zone sighting of the duplicate window lacks
\* GPS, the report is a duplicate whatever the distance.
C10_ZoneFallback ==
    ReportScanned =>
        \A id \in Candidates :
            (reply.lat = NoGPS \/ sightings[id].lat = NoGPS) => reply.result = "duplicate"

\* a report with a GPS fix is rejected because of a sighting without one
C10_Witness ==
    /\ ReportScanned
    /\ reply.result = "duplicate"
    /\ reply.lat # NoGPS
    /\ sightings[reply.matched].lat = NoGPS
    /\ sightings[reply.matched].reported_at < now

\* the candidate ends the scan: a fix is missing on either side, or both
\* carry GPS and lie within the radius
Matches(id) ==
    \/ reply.lat = NoGPS
    \/ sightings[id].lat = NoGPS
    \/ Abs(reply.lat - sightings[id].lat) <= DUPLICATE_RADIUS_METERS

RejectedAgainstNewestMatch ==
    reply.result = "duplicate" =>
        /\ reply.matched \in Candidates
        /\ Matches(reply.matched)
        /\ \A id \in Candidates :
              Matches(id) => sightings[id].reported_at
                                <= sightings[reply.matched].reported_at

\* C11 as stated: a report is accepted only if it carries GPS and every
\* candidate of the window carries GPS and is farther than the radius, and
\* otherwise it is rejected against the newest candidate that matches.
C11_AcceptedOnlyWithGps ==
    ReportScanned =>
        /\ reply.result = "accepted"
              <=> (reply.lat # NoGPS /\ \A id \in Candidates : ~Matches(id))
        /\ RejectedAgainstNewestMatch

\* C11, amended: the scan runs newest first and stops at the first match, a
\* far GPS candidate does not end it; a report is accepted exactly when no
\* candidate of the window matches (no candidate at all, or GPS on the report
\* and on every candidate and every candidate farther than the radius), and
\* otherwise it is rejected against the newest candidate that matches.
C11_ScanNewestFirst ==
    ReportScanned =>
        /\ reply.result = "accepted" <=> (\A id \in Candidates : ~Matches(id))
        /\ RejectedAgainstNewestMatch

\* a report is rejected against a candidate after the scan passed a newer
\* GPS candidate that lies farther than the radius
C11_Witness ==
    /\ ReportScanned
    /\ reply.result = "duplicate"
    /\ \E id \in Candidates :
          /\ ~Matches(id)
          /\ sightings[id].reported_at > sightings[reply.matched].reported_at

\* --- votes, one handler at a time
StoredVoteIs(F, sighting_id, user_id, vote) ==
    [sighting_id |-> sighting_id, user_id |-> user_id, vote |-> vote] \in F

Counter(S, sighting_id, vote) ==
    IF vote = "positive" THEN S[sighting_id].feedback_positive
    ELSE S[sighting_id].feedback_negative

Opposite(vote) == IF vote = "positive" THEN "negative" ELSE "positive"

SightingAge(sighting_id) == now - sightings[sighting_id].reported_at

\* the step is a run of handle_feedback; reply' holds its inputs and answer
FeedbackStep == reply'.op = "feedback" /\ now' = now

NoVoteChanged == feedback' = feedback /\ sightings' = sightings

FeedbackJustHandled == reply.op = "feedback" /\ reply.at = now

\* C12: a vote equal to the voter's stored vote on the sighting is rejected
\* as a duplicate vote and leaves the vote row and both counters unchanged.
C12_DuplicateVoteRejected ==
    [][(FeedbackStep /\ StoredVoteIs(feedback, reply'.sid, reply'.user, reply'.vote))
        => /\ reply'.result # "recorded"
           /\ SightingAge(reply'.sid) <= FEEDBACK_WINDOW_HOURS * HOUR
                 => reply'.result = "duplicate_vote"
           /\ NoVoteChanged]_vars

\* a repeated vote was just rejected on a sighting that counts that vote
C12_Witness ==
    /\ FeedbackJustHandled
    /\ reply.result = "duplicate_vote"
    /\ StoredVoteIs(feedback, reply.sid, reply.user, reply.vote)
    /\ Counter(sightings, reply.sid, reply.vote) >= 1

\* C13: a voter with a stored vote of one kind who applies the opposite kind
\* takes 1 from the counter of the old kind, adds 1 to the counter of the new
\* kind and has the stored vote replaced; the sum of the counters is kept.
C13_VoteChangeMovesOneCount ==
    [][(/\ FeedbackStep
        /\ StoredVoteIs(feedback, reply'.sid, reply'.user, Opposite(reply'.vote))
        /\ SightingAge(reply'.sid) <= FEEDBACK_WINDOW_HOURS * HOUR)
        => LET id == reply'.sid
               new == reply'.vote
               old == Opposite(reply'.vote)
           IN /\ reply'.result = "recorded"
              /\ Counter(sightings', id, old) = Counter(sightings, id, old) - 1
              /\ Counter(sightings', id, new) = Counter(sightings, id, new) + 1
              /\ StoredVoteIs(feedback', id, reply'.user, new)
              /\ ~StoredVoteIs(feedback', id, reply'.user, old)
              /\ Cardinality(feedback') = Cardinality(feedback)]_vars

\* positive then negative by the one voter: the sighting stands at (0, 1)
C13_Witness ==
    /\ FeedbackJustHandled
    /\ reply.result = "recorded"
    /\ reply.previous = "positive"
    /\ reply.vote = "negative"
    /\ sightings[reply.sid].feedback_positive = 0
    /\ sightings[reply.sid].feedback_negative = 1

NoSelfVoteStored ==
    \A r \in feedback :
        /\ r.sighting_id \in DOMAIN sightings
        /\ sightings[r.sighting_id].reporter_id # r.user_id

\* C14: no stored vote has the sighting's reporter as its voter; a vote by the
\* reporter on their own sighting is rejected as a self-vote, with the window
\* open or closed, and changes no vote and no counter.
C14_NoSelfVote ==
    /\ []NoSelfVoteStored
    /\ [][(/\ FeedbackStep
            /\ reply'.sid \in DOMAIN sightings
            /\ sightings[reply'.sid].reporter_id = reply'.user)
            => (reply'.result = "self_vote" /\ NoVoteChanged)]_vars

\* the reporter's vote is rejected as a self-vote after the window closed,
\* on a sighting that carries another user's vote
C14_Witness ==
    /\ FeedbackJustHandled
    /\ reply.result = "self_vote"
    /\ SightingAge(reply.sid) > FEEDBACK_WINDOW_HOURS * HOUR
    /\ \E r \in feedback : r.sighting_id = reply.sid

\* C15: a vote by somebody else than the reporter is taken up only while the
\* sighting's age is at most FEEDBACK_WINDOW_HOURS; at exactly that age it is
\* still taken up, later it is rejected as window closed and changes nothing.
C15_FeedbackWindow ==
    [][(/\ FeedbackStep
        /\ reply'.sid \in DOMAIN sightings
        /\ sightings[reply'.sid].reporter_id # reply'.user)
        => IF SightingAge(reply'.sid) > FEEDBACK_WINDOW_HOURS * HOUR
           THEN reply'.result = "window_closed" /\ NoVoteChanged
           ELSE reply'.result \in {"recorded", "duplicate_vote"}]_vars

\* a vote is recorded at exactly the window boundary
C15_Witness ==
    /\ FeedbackJustHandled
    /\ reply.result = "recorded"
    /\ SightingAge(reply.sid) = FEEDBACK_WINDOW_HOURS * HOUR

\* C16: the checks run in the order sighting exists, voter is not the
\* reporter, window is open, vote is not a duplicate, and the first that fails
\* gives the answer.
C16_PreconditionOrder ==
    [][FeedbackStep =>
        LET id == reply'.sid
        IN reply'.result =
            IF id \notin DOMAIN sightings THEN "expired"
            ELSE IF sightings[id].reporter_id = reply'.user THEN "self_vote"
            ELSE IF SightingAge(id) > FEEDBACK_WINDOW_HOURS * HOUR THEN "window_closed"
            ELSE IF StoredVoteIs(feedback, id, reply'.user, reply'.vote)
            THEN "duplicate_vote"
            ELSE "recorded"]_vars

\* a repeated identical vote after the window closed is answered with window
\* closed
C16_Witness ==
    /\ FeedbackJustHandled
    /\ reply.result = "window_closed"
    /\ StoredVoteIs(feedback, reply.sid, reply.user, reply.vote)

\* --- the broadcast
\* the step is an accepted report, which ends with its broadcast
BroadcastStep ==
    /\ reply'.op = "report"
    /\ reply'.result = "accepted"
    /\ nextId' = nextId + 1

\* the users subscribed to the zone, read off the subscriptions table
SubscribedTo(subs, zone) == {p[1] : p \in {q \in subs : q[2] = zone}}

ZonesOf(subs, user_id) == {p[2] : p \in {q \in subs : q[1] = user_id}}

Forbidden(outcome) == {uid \in DOMAIN outcome : outcome[uid] = "forbidden"}

BroadcastJustDone ==
    ReportJustHandled /\ reply.result = "accepted" /\ reply.sid = nextId - 1

\* C17: a broadcast attempts delivery to every user subscribed to the zone
\* when it starts, the reporter excepted, and to nobody else; sent + failed is
\* the number of those recipients and the reporter gets no alert.
C17_BroadcastRecipients ==
    [][BroadcastStep =>
        /\ DOMAIN reply'.outcome
              = SubscribedTo(subscriptions, reply'.zone) \ {reply'.user}
        /\ reply'.recipients = DOMAIN reply'.outcome
        /\ reply'.sent + reply'.failed = Cardinality(DOMAIN reply'.outcome)
        /\ reply'.sent = Cardinality({uid \in DOMAIN reply'.outcome :
                                          reply'.outcome[uid] = "delivered"})
        /\ reply'.user \notin DOMAIN reply'.outcome]_vars

\* the report of a reporter subscribed to the zone went to the zone's other
\* subscriber and not to a user subscribed to another zone only
C17_Witness ==
    /\ BroadcastJustDone
    /\ Cardinality(reply.recipients) = 1
    /\ reply.sent = 1
    /\ <<reply.user, reply.zone>> \in subscriptions
    /\ \E uid \in BroadcastUsers \ (reply.recipients \cup {reply.user}) :
          ZonesOf(subscriptions, uid) # {}

\* C18 as stated: after a broadcast every recipient whose delivery failed as
\* Forbidden is in the returned list and holds no subscription in any zone,
\* and every other recipient holds the subscriptions held before.
C18_ForbiddenPruned ==
    [][BroadcastStep =>
        /\ reply'.blocked = Forbidden(reply'.outcome)
        /\ \A uid \in Forbidden(reply'.outcome) : ZonesOf(subscriptions', uid) = {}
        /\ \A uid \in DOMAIN reply'.outcome \ Forbidden(reply'.outcome) :
              ZonesOf(subscriptions', uid) = ZonesOf(subscriptions, uid)]_vars

\* C18, amended: after a broadcast every recipient whose delivery failed as
\* Forbidden is in the returned list and, unless clear_subscriptions raised for
\* that id, holds no subscription in any zone; every other recipient, and a
\* Forbidden recipient whose clear_subscriptions raised, holds the
\* subscriptions held before.
C18_ForbiddenPrunedUnlessPruneFailed ==
    [][BroadcastStep =>
        /\ reply'.blocked = Forbidden(reply'.outcome)
        /\ \A uid \in Forbidden(reply'.outcome) \ reply'.prune_failed :
              ZonesOf(subscriptions', uid) = {}
        /\ \A uid \in (DOMAIN reply'.outcome \ Forbidden(reply'.outcome))
                          \cup reply'.prune_failed :
              ZonesOf(subscriptions', uid) = ZonesOf(subscriptions, uid)]_vars

\* of two recipients one was Forbidden and lost the subscriptions of both
\* zones, the other failed otherwise and keeps the subscription
C18_Witness ==
    /\ BroadcastJustDone
    /\ reply.prune_failed = {}
    /\ \E uid, other \in reply.recipients :
          /\ reply.outcome[uid] = "forbidden"
          /\ ZonesOf(subscriptions, uid) = {}
          /\ reply.outcome[other] = "error"
          /\ reply.zone \in ZonesOf(subscriptions, other)
    /\ \E z \in BroadcastZones : SubscribedTo(subscriptions, z) = {}

\* C19: a delivery that fails and a clear_subscriptions that raises stay
\* inside the broadcast: every recipient is attempted, every other Forbidden
\* id is pruned, and the counts come back to the caller, which stores the
\* sighting and answers the reporter.
C19_FailuresContained ==
    [][BroadcastStep =>
        /\ DOMAIN reply'.outcome
              = SubscribedTo(subscriptions, reply'.zone) \ {reply'.user}
        /\ reply'.failed = Cardinality({uid \in DOMAIN reply'.outcome :
                                            reply'.outcome[uid] # "delivered"})
        /\ reply'.sent + reply'.failed = Cardinality(DOMAIN reply'.outcome)
        /\ \A uid \in Forbidden(reply'.outcome) \ reply'.prune_failed :
              ZonesOf(subscriptions', uid) = {}
        /\ reply'.sid \in DOMAIN sightings']_vars

\* of two Forbidden recipients the pruning of one raised: the other is pruned
\* and the report is answered with both failures counted
C19_Witness ==
    /\ BroadcastJustDone
    /\ reply.failed = 2
    /\ Cardinality(reply.blocked) = 2
    /\ Cardinality(reply.prune_failed) = 1
    /\ \E uid \in reply.blocked \ reply.prune_failed : ZonesOf(subscriptions, uid) = {}
    /\ \E uid \in reply.prune_failed : reply.zone \in ZonesOf(subscriptions, uid)

\* C20: banning a user (by command or by the warning threshold) leaves that
\* user without any subscription; unbanning a banned user removes the ban,
\* changes no subscription (nothing the ban removed comes back) and sets the
\* user's warning count to 0.
BanDone == reply' # reply /\ reply'.result \in {"banned", "auto_banned"}

UnbanDone == reply' # reply /\ reply'.op = "unban" /\ reply'.result = "unbanned"

IsBannedIn(B, user_id) == \E b \in B : b.telegram_id = user_id

Logged(action, target) ==
    \E i \in 1..Len(admin_actions) :
        admin_actions[i].action = action /\ admin_actions[i].target = target

C20_BanClearsUnbanKeeps ==
    [][ /\ BanDone =>
             /\ IsBannedIn(banned_users', reply'.target)
             /\ ZonesOf(subscriptions', reply'.target) = {}
             /\ \A uid \in Users \ {reply'.target} :
                    ZonesOf(subscriptions', uid) = ZonesOf(subscriptions, uid)
        /\ UnbanDone =>
             /\ IsBannedIn(banned_users, reply'.target)
             /\ ~IsBannedIn(banned_users', reply'.target)
             /\ subscriptions' = subscriptions
             /\ reply'.target \in DOMAIN users' => users'[reply'.target].warnings = 0
      ]_vars

\* an unban of a user who had been warned and banned: no ban, no warning and
\* no subscription is left
C20_Witness ==
    /\ reply.op = "unban" /\ reply.result = "unbanned"
    /\ reply.target \in DOMAIN users
    /\ users[reply.target].warnings = 0
    /\ ~is_banned(reply.target)
    /\ ZonesOf(subscriptions, reply.target) = {}
    /\ Logged("warn_user", reply.target)
    /\ Logged("ban_user", reply.target)

\* C21: a ban command of an admin aimed at a user who is already banned leaves
\* exactly one ban record for that user, and that record carries the admin and
\* the reason of this latest command.
BanRecords(B, user_id) == {b \in B : b.telegram_id = user_id}

RebanAttempt ==
    /\ reply' # reply
    /\ reply'.op = "ban"
    /\ reply'.user \in ADMIN_USER_IDS
    /\ IsBannedIn(banned_users, reply'.target)

C21_BanIdempotent ==
    [][ RebanAttempt =>
            BanRecords(banned_users', reply'.target)
                = {[telegram_id |-> reply'.target, banned_by |-> reply'.user,
                    reason |-> reply'.reason]}
      ]_vars

\* C22: a warn of an existing user adds exactly 1 to that user's warning count
\* and appends a warn_user audit entry; when the new count is MAX_WARNINGS
\* (and MAX_WARNINGS > 0) the same step bans the user with the auto-ban reason
\* naming the count and appends an auto_ban audit entry after the warn_user
\* one; while the new count is below MAX_WARNINGS the step changes no ban.
WarnDone == reply'.op = "warn" /\ reply'.result \in {"warned", "auto_banned"}

AuditEntry(admin_id, action, target) ==
    [admin_id |-> admin_id, action |-> action, target |-> target]

C22_WarnEscalation ==
    [][ WarnDone =>
          LET t == reply'.target
              a == reply'.user
              n == users[t].warnings + 1
              k == Len(admin_actions)
          IN /\ t \in DOMAIN users
             /\ users' = [users EXCEPT ![t].warnings = n]
             /\ Len(admin_actions') > k
             /\ SubSeq(admin_actions', 1, k) = admin_actions
             /\ admin_actions'[k + 1] = AuditEntry(a, "warn_user", t)
             /\ (MAX_WARNINGS > 0 /\ n = MAX_WARNINGS) =>
                    /\ BanRecords(banned_users', t)
                         = {[telegram_id |-> t, banned_by |-> a,
                             reason |-> "Auto-ban: " \o ToString(n) \o " warnings reached"]}
                    /\ Len(admin_actions') = k + 2
                    /\ admin_actions'[k + 2] = AuditEntry(a, "auto_ban", t)
             /\ n < MAX_WARNINGS =>
                    /\ banned_users' = banned_users
                    /\ Len(admin_actions') = k + 1
      ]_vars

\* the third warning of a user has just banned that user
C22_Witness ==
    /\ reply.op = "warn" /\ reply.result = "auto_banned"
    /\ reply.target \in DOMAIN users
    /\ users[reply.target].warnings = MAX_WARNINGS
    /\ is_banned(reply.target)
    /\ Len(admin_actions) >= 4
    /\ admin_actions[Len(admin_actions)].action = "auto_ban"
    /\ admin_actions[Len(admin_actions) - 1].action = "warn_user"

\* C23: when a vote has been recorded on a sighting, the sighting is flagged
\* afterwards if its votes number at least 3 and more than 7 in 10 of them
\* are negative; with fewer than 3 votes, or with 7 in 10 or fewer negative,
\* the step leaves flagged as it was.
RecordedStep == FeedbackStep /\ reply'.result = "recorded"

NegativeAbove70(pos, neg) == 10 * neg > 7 * (pos + neg)

C23_AutoFlagThreshold ==
    [][ RecordedStep =>
          LET id == reply'.sid
              pos == sightings'[id].feedback_positive
              neg == sightings'[id].feedback_negative
          IN /\ (pos + neg >= 3 /\ NegativeAbove70(pos, neg)) => sightings'[id].flagged = 1
             /\ (pos + neg < 3 \/ ~NegativeAbove70(pos, neg)) =>
                    sightings'[id].flagged = sightings[id].flagged
      ]_vars

\* ten votes, seven of them negative, have been recorded and the sighting is
\* not flagged
C23_Witness ==
    /\ FeedbackJustHandled /\ reply.result = "recorded"
    /\ reply.sid \in DOMAIN sightings
    /\ sightings[reply.sid].feedback_negative = 7
    /\ sightings[reply.sid].feedback_positive = 3
    /\ Cardinality({r \in feedback : r.sighting_id = reply.sid}) = 10
    /\ sightings[reply.sid].flagged = 0

\* C24: a sighting that is flagged stays flagged in every later step for as
\* long as it is stored, whatever votes and vote changes follow and however
\* low its share of negative votes falls.
C24_FlagOneWay ==
    [][ \A id \in DOMAIN sightings \cap DOMAIN sightings' :
            sightings[id].flagged = 1 => sightings'[id].flagged = 1
      ]_vars

\* a flagged sighting whose votes are no longer more than 7 in 10 negative,
\* after a vote was changed
C24_Witness ==
    /\ FeedbackJustHandled /\ reply.result = "recorded"
    /\ reply.previous = "negative" /\ reply.vote = "positive"
    /\ reply.sid \in DOMAIN sightings
    /\ sightings[reply.sid].flagged = 1
    /\ ~NegativeAbove70(sightings[reply.sid].feedback_positive,
                        sightings[reply.sid].feedback_negative)

\* C25: for every user, calculate_accuracy over the stored sightings returns
\* (0.0, 0) when the positive and negative counters of the user's sightings
\* add up to zero (also when the user has no sighting), and otherwise the
\* share of the positive counters in the sum of both, taken over all the
\* user's sightings together, with that sum as the total; /mystats reports
\* these two values.
CounterSum(user_id, vote) ==
    LET upto[i \in 0 .. MaxAccuracySightings] ==
            IF i = 0 THEN 0
            ELSE upto[i - 1]
                   + (IF i \in DOMAIN sightings /\ sightings[i].reporter_id = user_id
                      THEN Counter(sightings, i, vote) ELSE 0)
    IN upto[MaxAccuracySightings]

AccuracyAsSpecified(user_id) ==
    LET pos == CounterSum(user_id, "positive")
        total == pos + CounterSum(user_id, "negative")
        acc == calculate_accuracy(sightings, user_id)
    IN IF total = 0
       THEN acc = <<[num |-> 0, den |-> 1], 0>>
       ELSE /\ acc[2] = total
            /\ acc[1].num * total = pos * acc[1].den
            /\ acc[1].den > 0

C25_AccuracyAggregate ==
    /\ \A u \in AccuracyReporters \cup AccuracyVoters : AccuracyAsSpecified(u)
    /\ (reply.op = "mystats" /\ reply.result = "stats") =>
            <<reply.score, reply.total>> = calculate_accuracy(sightings, reply.user)

\* /mystats of a reporter with two positive votes on one sighting and one
\* negative vote on another: 2/3 over 3 votes
C25_Witness ==
    /\ reply.op = "mystats" /\ reply.result = "stats"
    /\ reply.score = [num |-> 2, den |-> 3] /\ reply.total = 3
    /\ \E a, b \in SightingsOf(sightings, reply.user) :
          /\ sightings[a].feedback_positive = 2 /\ sightings[a].feedback_negative = 0
          /\ sightings[b].feedback_positive = 0 /\ sightings[b].feedback_negative = 1

\* C26: a step that removes sightings, the retention sweep or an admin
\* deletion, changes no reporter's accuracy and total feedback: the votes
\* received on the removed sightings still count.
SightingsRemoved ==
    DOMAIN sightings' # DOMAIN sightings /\ DOMAIN sightings' \subseteq DOMAIN sightings

C26_DeletedSightingsStillCount ==
    [][ SightingsRemoved =>
            \A u \in AccuracyReporters :
                calculate_accuracy(sightings', u) = calculate_accuracy(sightings, u)
      ]_vars

\* C27: a retention sweep removes exactly the sightings reported strictly
\* before now minus SIGHTING_RETENTION_DAYS and every vote on them, reports
\* how many sightings it removed, and leaves every other sighting, with its
\* counters, and every other vote as they were.
SweepStep == reply'.op = "cleanup" /\ now' = now

PastHorizon(id) == sightings[id].reported_at < now - SIGHTING_RETENTION_DAYS * DAY

C27_SweepExactlyOlder ==
    [][ SweepStep =>
          LET gone == {id \in DOMAIN sightings : PastHorizon(id)}
          IN /\ DOMAIN sightings' = DOMAIN sightings \ gone
             /\ \A id \in DOMAIN sightings' : sightings'[id] = sightings[id]
             /\ feedback' = {r \in feedback : r.sighting_id \notin gone}
             /\ reply'.deleted = Cardinality(gone)
      ]_vars

\* a sweep has removed one sighting and kept a voted one that is exactly
\* SIGHTING_RETENTION_DAYS old
C27_Witness ==
    /\ reply.op = "cleanup" /\ reply.deleted = 1
    /\ \E id \in DOMAIN sightings :
          /\ sightings[id].reported_at = now - SIGHTING_RETENTION_DAYS * DAY
          /\ sightings[id].feedback_positive + sightings[id].feedback_negative = 2
          /\ Cardinality({r \in feedback : r.sighting_id = id}) = 2

\* C28: in every reachable state each vote row belongs to a stored sighting:
\* admin deletion and the retention sweep take the votes with the sighting,
\* and a vote on an id that is not stored is not recorded.
C28_VotesReferToStoredSightings ==
    \A r \in feedback : r.sighting_id \in DOMAIN sightings

\* a vote on a sighting that had been removed was just refused while votes on
\* another sighting are stored
C28_Witness ==
    /\ reply.op = "feedback" /\ reply.result = "expired"
    /\ reply.sid < nextId /\ reply.sid \notin DOMAIN sightings
    /\ feedback # {}

\* C29: in every step a user's report_count grows by exactly 1 if the step
\* creates a sighting for that user and is unchanged otherwise, whether the
\* step is a rejected report, a vote, a retention sweep, a sighting deletion,
\* a ban or an unban; a user without a row counts as 0, so the count always
\* equals the number of sightings created for the user.
ReportCount(U, user_id) == IF user_id \in DOMAIN U THEN U[user_id].report_count ELSE 0

CreatedFor(user_id) ==
    \E id \in DOMAIN sightings' \ DOMAIN sightings : sightings'[id].reporter_id = user_id

ReportStep == reply'.op = "report" /\ reply'.at = now /\ now' = now

OverLimit(user_id) == Cardinality(InTrailingHour(user_id)) >= MAX_REPORTS_PER_HOUR

\* without a GPS fix every sighting of the zone in the window is a duplicate
ZoneHasRecent(zone_name) ==
    \E id \in DOMAIN sightings :
        /\ sightings[id].zone = zone_name
        /\ sightings[id].reported_at > now - DUPLICATE_WINDOW_MINUTES * MINUTE

C30_PipelineOrder ==
    [][ ReportStep =>
          LET u == reply'.user
              z == reply'.zone
          IN /\ OverLimit(u) => reply'.result = "rate_limited"
             /\ (~OverLimit(u) /\ reply'.lat = NoGPS /\ ZoneHasRecent(z)) =>
                    reply'.result = "duplicate"
             /\ reply'.result # "accepted" =>
                    /\ sightings' = sightings /\ users' = users
                    /\ subscriptions' = subscriptions
                    /\ reply'.recipients = {} /\ reply'.sent = 0
             /\ reply'.recipients # {} =>
                    /\ reply'.result = "accepted"
                    /\ reply'.sid \in DOMAIN sightings' \ DOMAIN sightings
                    /\ sightings'[reply'.sid].zone = z
                    /\ sightings'[reply'.sid].reporter_id = u
      ]_vars

\* a report that is over the limit and a duplicate, in a zone with a
\* subscriber, was answered as rate-limited
C30_Witness ==
    /\ ReportJustHandled /\ reply.result = "rate_limited"
    /\ OverLimit(reply.user)
    /\ ZoneHasRecent(reply.zone)
    /\ SubscribedTo(subscriptions, reply.zone) \ {reply.user} # {}

\* ------------------------------------------------------------------ C33
\* C33: /admin delete without the confirm argument leaves the sighting, its
\* votes and the audit log as they are; a delete answered as done was given
\* on a stored sighting, removes that sighting with its votes and appends
\* exactly one delete_sighting entry to the audit log; every other answer to
\* a delete changes none of the three.
DeleteAnswered == reply'.op = "delete"

DeleteWithoutConfirm ==
    \E c \in AdminCallers, s \in AdminIds :
        admin_only(c, "delete", s, admin_delete(c, s, FALSE))

C33_DeleteNeedsConfirm ==
    [][ /\ DeleteWithoutConfirm => UNCHANGED <<sightings, feedback, admin_actions>>
        /\ DeleteAnswered =>
              LET s == reply'.target
              IN IF reply'.result = "deleted"
                 THEN /\ s \in DOMAIN sightings
                      /\ reply'.user \in ADMIN_USER_IDS
                      /\ DOMAIN sightings' = DOMAIN sightings \ {s}
                      /\ \A id \in DOMAIN sightings' : sightings'[id] = sightings[id]
                      /\ feedback' = {r \in feedback : r.sighting_id # s}
                      /\ admin_actions' = Append(admin_actions,
                              AuditEntry(reply'.user, "delete_sighting", s))
                 ELSE UNCHANGED <<sightings, feedback, admin_actions>>
      ]_vars

\* an admin asked to delete a stored sighting that has a vote, without
\* confirm: the sighting and the vote are still there, nothing is logged
C33_Witness ==
    /\ reply.op = "delete" /\ reply.result = "confirm_required"
    /\ reply.user \in ADMIN_USER_IDS
    /\ reply.target \in DOMAIN sightings
    /\ \E r \in feedback : r.sighting_id = reply.target
    /\ ~Logged("delete_sighting", reply.target)

\* ------------------------------------------------------------------ C34
\* C34: an /admin ban, unban, warn or delete sent by a user who is not in
\* ADMIN_USER_IDS is answered as an unknown command and changes no table:
\* nobody is banned or unbanned, no warning is counted, no sighting or vote
\* is deleted and nothing is written to the audit log.
AdminOps == {"ban", "unban", "warn", "delete"}

NonAdminAnswered == reply'.op \in AdminOps /\ reply'.user \notin ADMIN_USER_IDS

C34_NonAdminRunsNothing ==
    [][ NonAdminAnswered =>
          /\ reply'.result = "unknown_command"
          /\ UNCHANGED store
      ]_vars

\* a non-admin asked to delete a stored sighting with confirm and was told
\* the command is unknown; the sighting is still stored
C34_Witness ==
    /\ reply.op = "delete" /\ reply.user \notin ADMIN_USER_IDS
    /\ reply.result = "unknown_command"
    /\ reply.target \in DOMAIN sightings
    /\ admin_actions = <<>>

\* ------------------------------------------------------------------ C35
\* C35: in every reachable state the feedback table holds at most one row
\* for a pair of sighting and user, and a step that stores a vote for a pair
\* that already has a row removes the old row: the new vote takes its place.
RowsOf(F, sighting_id, user_id) ==
    {r \in F : r.sighting_id = sighting_id /\ r.user_id = user_id}

OneRowPerPair ==
    \A r \in feedback : Cardinality(RowsOf(feedback, r.sighting_id, r.user_id)) = 1

C35_OneVotePerPair ==
    /\ []OneRowPerPair
    /\ [][ \A r \in feedback' \ feedback :
              RowsOf(feedback', r.sighting_id, r.user_id) = {r}
         ]_vars

\* a voter's second call on the sighting, with the opposite vote, has
\* returned: the pair has one row and it holds the new vote
C35_Witness ==
    \E t \in Tasks :
        /\ calls[t].pc = "done"
        /\ calls[t].previous_vote = "positive" /\ calls[t].new_vote = "negative"
        /\ RowsOf(feedback, calls[t].sighting_id, calls[t].user_id)
              = {[sighting_id |-> calls[t].sighting_id, user_id |-> calls[t].user_id,
                  vote |-> "negative"]}

\* ------------------------------------------------------------------ C36
\* C36: the badge depends on report_count alone: New below 3, Regular from
\* 3 to 10, Trusted from 11 to 50 and Veteran from 51 on; /mystats shows the
\* badge of the caller's stored report_count.
BadgeTier(n) ==
    CASE n < 3 -> "New"
      [] n >= 3 /\ n <= 10 -> "Regular"
      [] n >= 11 /\ n <= 50 -> "Trusted"
      [] n >= 51 -> "Veteran"

C36_BadgeTiers ==
    /\ \A n \in 0..(MaxBadgeCount + MaxBadgeSightings) :
          get_reporter_badge(n) = BadgeTier(n)
    /\ (reply.op = "mystats" /\ reply.result = "stats") =>
          reply.badge = BadgeTier(users[reply.user].report_count)

\* a reporter whose count has just reached 51 is shown the Veteran badge
C36_Witness ==
    /\ reply.op = "mystats" /\ reply.result = "stats"
    /\ users[reply.user].report_count = 51
    /\ reply.badge = "Veteran"
    /\ Cardinality(DOMAIN sightings) = 1

\* ------------------------------------------------------------------ C37
\* C37: a report that is answered as rate-limited or as a duplicate changes
\* no table: no sighting is stored and no id is used, the reporter's row and
\* report_count are as before, no subscription changes, and no subscriber
\* is sent an alert.
ReportRejected == ReportStep /\ reply'.result \in {"rate_limited", "duplicate"}

C37_RejectedReportChangesNothing ==
    [][ ReportRejected =>
          /\ UNCHANGED <<store, nextId>>
          /\ reply'.sid = 0
          /\ reply'.recipients = {} /\ reply'.outcome = NoReply.outcome
          /\ reply'.sent = 0 /\ reply'.failed = 0 /\ reply'.blocked = {}
      ]_vars

\* a report was just refused as a duplicate in a zone that has a subscriber
\* other than the reporter, whose count stays at the one accepted report
C37_Witness ==
    /\ ReportJustHandled /\ reply.result = "duplicate"
    /\ SubscribedTo(subscriptions, reply.zone) \ {reply.user} # {}
    /\ ReportCount(users, reply.user) = 1
    /\ Cardinality(DOMAIN sightings) = 1

\* ------------------------------------------------------------------ C38
\* C38: when a report is rejected by the rate limiter with an advertised wait
\* of w minutes, no handler runs for w minutes and the same reporter then
\* submits a report, that report is not rejected by the rate limiter.
RetryAfterAdvertisedWait ==
    /\ reply.op = "report" /\ reply.result = "rate_limited"
    /\ now = reply.at + reply.wait_mins * MINUTE
    /\ ReportStep /\ reply'.user = reply.user

CancelOps == {"report_cancel", "cancel", "location_cancel"}

SightingStored == DOMAIN sightings' \ DOMAIN sightings # {}

ConfirmedIn(chat, user_id) ==
    /\ conversations[<<chat, user_id>>] = CONFIRMING
    /\ conversations'[<<chat, user_id>>] = END
    /\ reply'.op = "report" /\ reply'.user = user_id

C39_OnlyCompleteReportsSubmitted ==
    [][ /\ SightingStored =>
             \A id \in DOMAIN sightings' \ DOMAIN sightings :
                 LET u == sightings'[id].reporter_id
                 IN /\ \E c \in Chats : ConfirmedIn(c, u)
                    /\ user_data[u].zone # None
                    /\ sightings'[id].zone = user_data[u].zone
        /\ reply'.op \in CancelOps =>
             /\ UNCHANGED <<store, nextId>>
             /\ user_data'[reply'.user].zone = None
             /\ user_data'[reply'.user].description = None
             /\ user_data'[reply'.user].lat = NoGPS
             /\ conversations'[<<reply'.chat, reply'.user>>] = END
        /\ (reply'.op = "report" /\ reply'.result = "expired") =>
             /\ user_data[reply'.user].zone = None
             /\ UNCHANGED <<store, nextId>>
      ]_vars

\* the Confirm button of one chat was tapped after the report had been
\* cancelled in the other chat: the report has expired, nothing is stored
C39_Witness ==
    /\ reply.op = "report" /\ reply.result = "expired" /\ reply.at = now
    /\ conversations[<<reply.chat, reply.user>>] = END
    /\ user_data[reply.user].region = "central"
    /\ sightings = <<>>

\* ------------------------------------------------------------------ C40
\* C40: every stored sighting that has coordinates is of the zone nearest
\* to them, the zone derived from the shared location; a zone picked by
\* hand clears the pending coordinates, also when a location had been
\* shared before, so that the report then confirmed is stored without
\* coordinates.
CoordinatesMatchZone ==
    /\ \A id \in DOMAIN sightings :
          sightings[id].lat # NoGPS => sightings[id].zone = nearest_zone_of(sightings[id].lat)
    /\ \A u \in ConvReporters :
          user_data[u].lat # NoGPS => user_data[u].zone = nearest_zone_of(user_data[u].lat)

C40_CoordinatesOnlyWithDerivedZone ==
    /\ []CoordinatesMatchZone
    /\ [][ /\ reply'.op = "report_zone" =>
                 /\ user_data'[reply'.user].zone = reply'.zone
                 /\ user_data'[reply'.user].lat = NoGPS
           /\ SightingStored =>
                 \A id \in DOMAIN sightings' \ DOMAIN sightings :
                     sightings'[id].lat = user_data[sightings'[id].reporter_id].lat
         ]_vars

\* a reporter who had shared a location near Bugis picked Orchard by hand:
\* the pending report is of Orchard and has no coordinates
C40_Witness ==
    /\ reply.op = "report_zone" /\ reply.at = now
    /\ reply.replaced_lat = 50 /\ reply.zone = "Orchard"
    /\ user_data[reply.user].zone = "Orchard"
    /\ user_data[reply.user].lat = NoGPS
    /\ conversations[<<reply.chat, reply.user>>] = AWAITING_DESCRIPTION

\* ------------------------------------------------------------------ C32
\* C32: while a user is banned no step stores a sighting with that user as
\* reporter and no step sends an alert for a report of that user, also when
\* the ban came after the user had started the report conversation.
AlertsSent == reply'.op = "report" /\ reply'.result = "accepted" /\ reply'.recipients # {}

C32_BannedCannotReport ==
    [][ /\ \A id \in DOMAIN sightings' \ DOMAIN sightings :
               ~is_banned(sightings'[id].reporter_id)
        /\ AlertsSent => ~is_banned(reply'.user)
      ]_vars

\* ------------------------------------------------------------------ C31
\* C31: the checks of a report and the write of its sighting are separate
\* steps: a call that has passed the rate limit and the duplicate scan
\* stores its sighting and is answered as accepted whatever was stored in
\* between, so two calls that pass their checks before either has stored
\* are both accepted, although the second would have been rejected had it
\* started after the first had finished.
StoreStepOf(t) == in_flight[t].pc = "store" /\ in_flight'[t].pc = "idle"

C31_ChecksNotAtomicWithWrite ==
    [][ \A t \in Tasks :
          StoreStepOf(t) =>
              /\ reply'.op = "report" /\ reply'.result = "accepted"
              /\ reply'.user = in_flight[t].user_id
              /\ DOMAIN sightings' = DOMAIN sightings \cup {reply'.sid}
              /\ reply'.sid \notin DOMAIN sightings
              /\ sightings'[reply'.sid].zone = in_flight[t].zone
              /\ sightings'[reply'.sid].reporter_id = in_flight[t].user_id
      ]_vars

\* a report without a fix was just accepted in a zone that already holds a
\* sighting of this instant, which makes it a duplicate, and it is the
\* reporter's fourth sighting of the hour, one more than the limit
C31_Witness ==
    /\ ReportJustHandled /\ reply.result = "accepted"
    /\ \E id \in DOMAIN sightings :
          /\ id # reply.sid
          /\ sightings[id].zone = reply.zone
          /\ sightings[id].reported_at = now
    /\ Cardinality(InTrailingHour(reply.user)) = MAX_REPORTS_PER_HOUR + 1

====
